---- MODULE Spec2Model ----
(***************************************************************************)
(* A model of the clubs poker engine: the Dealer betting state machine     *)
(* (clubs/poker/engine.py) together with the Deck (clubs/poker/card.py)    *)
(* and the Evaluator (clubs/poker/evaluator.py) the dealer consults at     *)
(* showdown.                                                               *)
(*                                                                         *)
(* Seats, streets and list positions are numbered from 0 as in the source; *)
(* Python lists indexed by seat or street are functions on 0..n-1, lists   *)
(* that grow (deck, history, cards) are sequences.                         *)
(***************************************************************************)
EXTENDS Integers, Sequences, FiniteSets, TLC

VARIABLES
    \* Dealer configuration (engine.py 183-196)
    num_players, num_streets, blinds, antes, big_blind, raise_sizes,
    num_raises, num_suits, num_ranks, num_hole_cards, num_community_cards,
    num_cards_for_hand, mandatory_num_hole_cards, start_stack,
    \* self.evaluator (engine.py 204-211)
    evaluator,
    \* Dealer state (engine.py 199-221)
    action, active, button, community_cards, deck, history, hole_cards,
    largest_raise, pot, pot_commits, stacks, street, street_commits,
    street_option, street_raises,
    \* the trick of the deck (card.py 175-177)
    _tricked, _top_idcs, _bottom_idcs,
    \* what the last call of reset/step received, computed and returned
    last, payouts, done, error,
    \* number of hands started with reset_stacks=False since the stacks
    \* were last reset
    carried

config == <<num_players, num_streets, blinds, antes, big_blind, raise_sizes,
            num_raises, num_suits, num_ranks, num_hole_cards,
            num_community_cards, num_cards_for_hand,
            mandatory_num_hole_cards, start_stack, evaluator>>

table == <<action, active, button, community_cards, deck, history,
           hole_cards, largest_raise, pot, pot_commits, stacks, street,
           street_commits, street_option, street_raises>>

trick == <<_tricked, _top_idcs, _bottom_idcs>>

vars == <<config, table, trick, last, payouts, done, error, carried>>

-----------------------------------------------------------------------------
(* Bounds of the model *)

\* largest bet submitted to step, in half chips (step takes a float)
MaxBet2 == 8
\* hands played in a row with reset_stacks=False
MaxCarried == 1

\* the bets placed in one hand: a longer hand is not followed further
MaxHistory == 8

\* largest number of cards asked of Deck.draw
MaxDraw == 4

-----------------------------------------------------------------------------
(* Generic helpers *)

Min2(a, b) == IF a <= b THEN a ELSE b
Max2(a, b) == IF a >= b THEN a ELSE b
Abs(a) == IF a < 0 THEN -a ELSE a

Seats == 0..(num_players - 1)

\* sum(list) for a list indexed 0..n-1
RECURSIVE SumUpTo(_, _)
SumUpTo(f, n) == IF n < 0 THEN 0 ELSE f[n] + SumUpTo(f, n - 1)
SumSeats(f) == SumUpTo(f, num_players - 1)

\* the sum of a list
RECURSIVE SumSeq(_)
SumSeq(q) == IF q = <<>> THEN 0 ELSE Head(q) + SumSeq(Tail(q))

\* max(list) for a list indexed 0..n-1
MaxSeats(f) == CHOOSE m \in {f[i] : i \in Seats} : \A i \in Seats : f[i] <= m

\* sum(list of bool)
CountTrue(f) == Cardinality({i \in Seats : f[i]})

\* TLC keeps a function constructor [x \in S |-> e] as an expression and
\* evaluates e again at every application; f @@ f is f as a table of values
Table(f) == f @@ f

-----------------------------------------------------------------------------
(* Cards and deck (card.py) *)

PRIMES == <<2, 3, 5, 7, 11, 13, 17, 19, 23, 29, 31, 37, 41>>
SUITS == <<1, 2, 4, 8>>

\* Card.__init__: bitrank | suit | rank | prime
Card(rank_int, suit_int) ==
    (2 ^ rank_int) * 65536 + suit_int * 4096 + rank_int * 256
        + PRIMES[rank_int + 1]

CardPrime(c) == c % 256
CardRank(c) == (c \div 256) % 16
CardSuit(c) == (c \div 4096) % 16

\* Deck.__init__: ranks STR_RANKS[-num_ranks:], suits the first num_suits,
\* rank-major order
full_deck ==
    Table([i \in 1..(num_ranks * num_suits) |->
        Card(13 - num_ranks + ((i - 1) \div num_suits),
             SUITS[((i - 1) % num_suits) + 1])])

\* a draw that drops the card under the cards it hands out: a card is then
\* lost at every deal, against C40
DrawLosesACard(cards, n) ==
    LET k == Min2(Max2(n, 0), Len(cards))
    IN  [drawn |-> SubSeq(cards, 1, k), rest |-> SubSeq(cards, k + 2, Len(cards))]

DrawKeepsCards(cards, n) ==
    LET k == Min2(Max2(n, 0), Len(cards))
    IN  [drawn |-> SubSeq(cards, 1, k), rest |-> cards]

\* Deck.draw(n) on the list cards: <<cards drawn, cards left>>
Draw(cards, n) ==
    LET k == Min2(Max2(n, 0), Len(cards))
    IN  [drawn |-> SubSeq(cards, 1, k), rest |-> SubSeq(cards, k + 1, Len(cards))]

\* the cards of the full deck at a list of indices (from 0)
CardsAt(idcs) == Table([i \in 1..Len(idcs) |-> full_deck[idcs[i] + 1]])

\* random.shuffle of a list: every ordering of it
Orders(q) ==
    {Table([i \in 1..Len(q) |-> q[p[i]]]) : p \in Permutations(1..Len(q))}

\* Deck.shuffle: the cards after the shuffle; a trick that names top cards
\* and leaves bottom cards puts the top cards first, in their order
Shuffles ==
    IF _tricked /\ _top_idcs # <<>> /\ _bottom_idcs # <<>>
    THEN {CardsAt(_top_idcs) \o bottom_cards :
            bottom_cards \in Orders(CardsAt(_bottom_idcs))}
    ELSE Orders(full_deck)

\* list.index: the position (from 0) of a card in the full deck
index(card) == (CHOOSE i \in 1..Len(full_deck) : full_deck[i] = card) - 1

\* the elements of a set of indices as a list, smallest first
RECURSIVE Listed(_)
Listed(S) ==
    IF S = {} THEN <<>>
    ELSE <<CHOOSE x \in S : \A y \in S : x <= y>>
            \o Listed(S \ {CHOOSE x \in S : \A y \in S : x <= y})

\* Deck.trick(top_cards): the indices it records
top_idcs_of(top_cards) ==
    Table([i \in 1..Len(top_cards) |-> index(top_cards[i])])
bottom_idcs_of(top_cards) ==
    Listed((0..(num_ranks * num_suits - 1))
            \ {index(top_cards[i]) : i \in 1..Len(top_cards)})

-----------------------------------------------------------------------------
(* Evaluator (evaluator.py): the lookup table is built as                    *)
(* LookupTable.__init__ builds it, for any number of suits, ranks and cards *)
(* per hand; an exception raised on the way is kept in its field raised.    *)

\* the product of the integers a..b, 1 when there are none
RECURSIVE ProductFromTo(_, _)
ProductFromTo(a, b) == IF a > b THEN 1 ELSE a * ProductFromTo(a + 1, b)

\* _ncr: r = min(r, n - r), then the falling product over the factorial
ncr(n, r) ==
    ProductFromTo(n - Min2(r, n - r) + 1, n) \div ProductFromTo(1, Min2(r, n - r))

\* the hand categories in the order of s_hands (evaluator.py 252-262)
HANDS ==
    <<"straight flush", "four of a kind", "full house", "flush", "straight",
      "three of a kind", "two pair", "pair", "high card">>

\* the same names as sorted() compares strings
SORTED_HANDS ==
    <<"flush", "four of a kind", "full house", "high card", "pair",
      "straight", "straight flush", "three of a kind", "two pair">>

\* the position of an element in a list that holds it once
IndexIn(list, x) == CHOOSE i \in 1..Len(list) : list[i] = x

\* a bool added to an int
AsInt(b) == IF b THEN 1 ELSE 0

\* the pair of counts a category method returns: suited = max(unsuited, ...)
Counted(unsuited, suited) ==
    [suited |-> Max2(unsuited, suited), unsuited |-> unsuited]

NoHands == [suited |-> 0, unsuited |-> 0]

\* LookupTable._straight_flush
_straight_flush(suits, ranks, cards_for_hand, low_end_straight) ==
    IF cards_for_hand < 3 \/ suits < 2 THEN NoHands
    ELSE Counted(ranks - (cards_for_hand - 1) + AsInt(low_end_straight),
                 (ranks - (cards_for_hand - 1) + AsInt(low_end_straight))
                    * suits)

\* LookupTable._four_of_a_kind
_four_of_a_kind(suits, ranks, cards_for_hand) ==
    IF cards_for_hand < 4 \/ suits < 4 THEN NoHands
    ELSE Counted(ncr(ranks, 1) * ncr(ranks - 1, cards_for_hand - 4),
                 ncr(ranks, 1) * ncr(ranks - 1, cards_for_hand - 4)
                    * suits ^ (cards_for_hand - 4))

\* LookupTable._full_house
_full_house(suits, ranks, cards_for_hand) ==
    IF cards_for_hand < 5 \/ suits < 3 THEN NoHands
    ELSE Counted(ncr(ranks, 1) * ncr(ranks - 1, 1)
                    * ncr(ranks - 2, cards_for_hand - 5),
                 ncr(ranks, 1) * ncr(ranks - 1, 1)
                    * ncr(ranks - 2, cards_for_hand - 5)
                    * ncr(suits, 3) * ncr(suits, 2)
                    * suits ^ (cards_for_hand - 5))

\* LookupTable._flush
_flush(suits, ranks, cards_for_hand, low_end_straight) ==
    IF cards_for_hand < 3 \/ suits < 2 THEN NoHands
    ELSE Counted(ncr(ranks, cards_for_hand)
                    - (ranks - (cards_for_hand - 1) + AsInt(low_end_straight)),
                 (ncr(ranks, cards_for_hand)
                    - (ranks - (cards_for_hand - 1) + AsInt(low_end_straight)))
                    * suits)

\* LookupTable._straight
_straight(suits, ranks, cards_for_hand, low_end_straight) ==
    IF cards_for_hand < 3 THEN NoHands
    ELSE IF suits < 2
    THEN [suited |-> ranks - (cards_for_hand - 1) + AsInt(low_end_straight),
          unsuited |-> ranks - (cards_for_hand - 1) + AsInt(low_end_straight)]
    ELSE Counted(ranks - (cards_for_hand - 1) + AsInt(low_end_straight),
                 (ranks - (cards_for_hand - 1) + AsInt(low_end_straight))
                    * suits ^ cards_for_hand
                 - (ranks - (cards_for_hand - 1) + AsInt(low_end_straight))
                    * suits)

\* LookupTable._three_of_a_kind
_three_of_a_kind(suits, ranks, cards_for_hand) ==
    IF cards_for_hand < 3 \/ suits < 3 THEN NoHands
    ELSE Counted(ncr(ranks, 1) * ncr(ranks - 1, cards_for_hand - 3),
                 ncr(ranks, 1) * ncr(ranks - 1, cards_for_hand - 3)
                    * ncr(suits, 3) * ncr(suits, 3) ^ (cards_for_hand - 3))

\* LookupTable._two_pair
_two_pair(suits, ranks, cards_for_hand) ==
    IF cards_for_hand < 4 \/ suits < 2 THEN NoHands
    ELSE Counted(ncr(ranks, 2) * ncr(ranks - 2, cards_for_hand - 4),
                 ncr(ranks, 2) * ncr(ranks - 2, cards_for_hand - 4)
                    * ncr(suits, 2) ^ 2 * suits ^ (cards_for_hand - 4))

\* LookupTable._pair
_pair(suits, ranks, cards_for_hand) ==
    IF cards_for_hand < 2 \/ suits < 2 THEN NoHands
    ELSE Counted(ncr(ranks, 1) * ncr(ranks - 1, cards_for_hand - 2),
                 ncr(ranks, 1) * ncr(ranks - 1, cards_for_hand - 2)
                    * ncr(suits, 2) * suits ^ (cards_for_hand - 2))

\* LookupTable._high_card
_high_card(suits, ranks, cards_for_hand, low_end_straight) ==
    LET straights == IF cards_for_hand > 2
                     THEN ranks - (cards_for_hand - 1)
                            + AsInt(low_end_straight)
                     ELSE 0
        unsuited == ncr(ranks, cards_for_hand) - straights
    IN  IF suits < 2 THEN [suited |-> unsuited, unsuited |-> unsuited]
        ELSE Counted(unsuited,
                     unsuited * (suits ^ cards_for_hand - suits))

\* LookupTable.__init__, lines 221-249: the suited and unsuited number of
\* hands of every category
hand_counts(suits, ranks, cards_for_hand, low_end_straight) ==
    Table([hand \in {HANDS[i] : i \in 1..9} |->
        CASE hand = "straight flush" ->
                _straight_flush(suits, ranks, cards_for_hand, low_end_straight)
          [] hand = "four of a kind" ->
                _four_of_a_kind(suits, ranks, cards_for_hand)
          [] hand = "full house" -> _full_house(suits, ranks, cards_for_hand)
          [] hand = "flush" ->
                _flush(suits, ranks, cards_for_hand, low_end_straight)
          [] hand = "straight" ->
                _straight(suits, ranks, cards_for_hand, low_end_straight)
          [] hand = "three of a kind" ->
                _three_of_a_kind(suits, ranks, cards_for_hand)
          [] hand = "two pair" -> _two_pair(suits, ranks, cards_for_hand)
          [] hand = "pair" -> _pair(suits, ranks, cards_for_hand)
          [] hand = "high card" ->
                _high_card(suits, ranks, cards_for_hand, low_end_straight)])

\* sorted(s_hands), lines 266-267: by suited count, then by name
s_hands(counts) ==
    Table([i \in 1..9 |->
        CHOOSE hand \in DOMAIN counts :
            Cardinality({other \in DOMAIN counts :
                \/ counts[other].suited < counts[hand].suited
                \/ /\ counts[other].suited = counts[hand].suited
                   /\ IndexIn(SORTED_HANDS, other)
                        < IndexIn(SORTED_HANDS, hand)}) = i - 1])

\* the running sum of the unsuited counts along the sorted hands (lines
\* 296-301)
RECURSIVE cumulative_hands(_, _, _)
cumulative_hands(counts, order, i) ==
    IF i = 0 THEN 0
    ELSE cumulative_hands(counts, order, i - 1) + counts[order[i]].unsuited

\* a category that was given no "rank" entry
NoRank == -1

\* hand_dict after lines 292-305: "cumulative unsuited" for every category
\* and "rank" for those whose cumulative count is positive
ranked(counts, order) ==
    Table([hand \in DOMAIN counts |->
        [suited |-> counts[hand].suited,
         unsuited |-> counts[hand].unsuited,
         cumulative_unsuited |->
            cumulative_hands(counts, order, IndexIn(order, hand)),
         rank |->
            IF cumulative_hands(counts, order, IndexIn(order, hand)) > 0
            THEN Cardinality({j \in 1..(IndexIn(order, hand) - 1) :
                    cumulative_hands(counts, order, j) > 0})
            ELSE NoRank]])

\* self.ranked_hands: the categories that have a rank, best first
ranked_hands_of(hand_dict) ==
    Table([i \in 1..Cardinality({hand \in DOMAIN hand_dict :
                                    hand_dict[hand].rank # NoRank}) |->
        CHOOSE hand \in DOMAIN hand_dict : hand_dict[hand].rank = i - 1])

\* LookupTable._get_rank: the first hand rank of a category; a category
\* without a "rank" entry is a KeyError
_get_rank(hand, hand_dict) ==
    IF hand_dict[hand].rank = 0 THEN 0
    ELSE hand_dict[ranked_hands_of(hand_dict)[hand_dict[hand].rank]]
            .cumulative_unsuited + 1

\* a rank-bit pattern is given as the set of its bit positions; its value
bits_value(bits) ==
    SumUpTo(Table([i \in 0..16 |-> IF i \in bits THEN 2 ^ i ELSE 0]), 16)

\* LookupTable._gen_straight_flush: the top pattern shifted down once for
\* every straight, then the low end straight, whose ace is the leading bit
\* of a string of 1 + max(ranks - k, 0) + (k - 1) + (13 - ranks) digits
_gen_straight_flush(cards_for_hand, ranks, low_end_straight) ==
    Table([i \in 1..Max2(ranks - (cards_for_hand - 1), 0) |->
        {13 - i - j : j \in 0..(cards_for_hand - 1)}])
    \o (IF low_end_straight
        THEN <<{12 - ranks + cards_for_hand
                    + Max2(ranks - cards_for_hand, 0)}
               \cup {13 - ranks + j : j \in 0..(cards_for_hand - 2)}>>
        ELSE <<>>)

\* the patterns _lexographic_next_bit yields in ncr(ranks, cards_for_hand)
\* steps from the lowest one, shifted by the ranks not in play: every
\* choice of cards_for_hand ranks in play, or, with fewer ranks than cards,
\* the lowest pattern alone
flush_patterns(cards_for_hand, ranks) ==
    IF ranks >= cards_for_hand
    THEN {b \in SUBSET ((13 - ranks)..12) : Cardinality(b) = cards_for_hand}
    ELSE {(13 - ranks)..(12 - ranks + cards_for_hand)}

\* a set of patterns as a list, largest value first
Descending(patterns) ==
    Table([j \in 1..Cardinality(patterns) |->
        CHOOSE b \in patterns :
            Cardinality({c \in patterns : bits_value(c) > bits_value(b)})
                = j - 1])

\* LookupTable._gen_flush: the patterns that are no straight flush, best
\* first
_gen_flush(cards_for_hand, ranks, straight_flushes) ==
    Descending(flush_patterns(cards_for_hand, ranks)
                \ {straight_flushes[i] : i \in 1..Len(straight_flushes)})

\* _prime_product_from_rank_bits: the bits of INT_RANKS that are set
RECURSIVE prime_product_from_rank_bits(_)
prime_product_from_rank_bits(bits) ==
    IF bits \cap (0..12) = {} THEN 1
    ELSE LET i == CHOOSE x \in bits \cap (0..12) : TRUE
         IN  PRIMES[i + 1] * prime_product_from_rank_bits(bits \ {i})

\* _prime_product_from_hand
RECURSIVE prime_product_from_hand(_)
prime_product_from_hand(cards) ==
    IF cards = <<>> THEN 1
    ELSE CardPrime(Head(cards)) * prime_product_from_hand(Tail(cards))

\* a lookup dict under construction: the dict, and the exception raised
Built(dict, raised) == [dict |-> dict, raised |-> raised]

\* lookup[product] = hand_rank; hand_rank += 1 for a list of products: a
\* product met again takes the later hand rank
inserted(products, hand_rank, dict) ==
    Table([p \in {products[j] : j \in 1..Len(products)} |->
        hand_rank - 1
            + CHOOSE j \in 1..Len(products) :
                /\ products[j] = p
                /\ \A i \in (j + 1)..Len(products) : products[i] # p])
    @@ dict

\* add_to_dict of LookupTable._flushes (lines 541-553): nothing for a
\* category whose cumulative count is 0, the assert on the number of
\* patterns, then the ranks counted up from _get_rank
add_bits(rank_string, rank_bits, built, hand_dict) ==
    IF built.raised # "none" \/ hand_dict[rank_string].cumulative_unsuited = 0
    THEN built
    ELSE IF Len(rank_bits) # hand_dict[rank_string].unsuited
    THEN Built(built.dict, "AssertionError")
    ELSE IF hand_dict[rank_string].rank = NoRank
    THEN Built(built.dict, "KeyError")
    ELSE Built(inserted(Table([j \in 1..Len(rank_bits) |->
                            prime_product_from_rank_bits(rank_bits[j])]),
                        _get_rank(rank_string, hand_dict), built.dict),
               "none")

\* LookupTable._flushes: the straight flush patterns are generated if
\* straight flushes or straights are counted, the flush patterns if flushes
\* or high cards are; gives <<suited_lookup, unsuited_lookup>>
straight_flushes_for(ranks, cards_for_hand, low_end_straight, hand_dict) ==
    IF \/ hand_dict["straight flush"].cumulative_unsuited # 0
       \/ hand_dict["straight"].cumulative_unsuited # 0
    THEN _gen_straight_flush(cards_for_hand, ranks, low_end_straight)
    ELSE <<>>

flushes_for(ranks, cards_for_hand, straight_flushes, hand_dict) ==
    IF \/ hand_dict["flush"].cumulative_unsuited # 0
       \/ hand_dict["high card"].cumulative_unsuited # 0
    THEN _gen_flush(cards_for_hand, ranks, straight_flushes)
    ELSE <<>>

_flushes_with(straight_flushes, flushes, hand_dict) ==
    <<add_bits("flush", flushes,
        add_bits("straight flush", straight_flushes,
                 Built(<<>>, "none"), hand_dict), hand_dict),
      add_bits("high card", flushes,
        add_bits("straight", straight_flushes,
                 Built(<<>>, "none"), hand_dict), hand_dict)>>

_flushes(ranks, cards_for_hand, low_end_straight, hand_dict) ==
    _flushes_with(
        straight_flushes_for(ranks, cards_for_hand, low_end_straight,
                             hand_dict),
        flushes_for(ranks, cards_for_hand,
            straight_flushes_for(ranks, cards_for_hand, low_end_straight,
                                 hand_dict), hand_dict),
        hand_dict)

\* the lists of a list of lists, one after the other
RECURSIVE Chain(_)
Chain(lists) ==
    IF lists = <<>> THEN <<>> ELSE Head(lists) \o Chain(Tail(lists))

\* a list without its i-th element
Without(list, i) == SubSeq(list, 1, i - 1) \o SubSeq(list, i + 1, Len(list))

\* itertools.combinations(list, n), in the order it yields them
RECURSIVE combinations(_, _)
combinations(list, n) ==
    IF n = 0 THEN <<<<>>>>
    ELSE IF Len(list) < n THEN <<>>
    ELSE Table([i \in 1..Len(combinations(Tail(list), n - 1)) |->
            <<Head(list)>> \o combinations(Tail(list), n - 1)[i]])
         \o combinations(Tail(list), n)

\* itertools.permutations(list, n), in the order it yields them
RECURSIVE permutations(_, _)
permutations(list, n) ==
    IF n = 0 THEN <<<<>>>>
    ELSE Chain(Table([i \in 1..Len(list) |->
            Table([j \in 1..Len(permutations(Without(list, i), n - 1)) |->
                <<list[i]>> \o permutations(Without(list, i), n - 1)[j]])]))

\* the product of the primes of a list of card ranks, each taken to the
\* power given for it
RECURSIVE prime_power_product(_, _)
prime_power_product(card_ranks, multiples) ==
    IF card_ranks = <<>> THEN 1
    ELSE PRIMES[Head(card_ranks) + 1] ^ Head(multiples)
            * prime_power_product(Tail(card_ranks), Tail(multiples))

\* a list without the elements of another
RECURSIVE Removed(_, _)
Removed(list, gone) ==
    IF list = <<>> THEN <<>>
    ELSE (IF \E i \in 1..Len(gone) : gone[i] = Head(list)
          THEN <<>> ELSE <<Head(list)>>) \o Removed(Tail(list), gone)

\* the ranks in play from the ace down
backwards_ranks(ranks) == Table([i \in 1..ranks |-> 13 - i])

\* the products add_to_dict of LookupTable._multiples records for one
\* choice of the ranks of the multiples (lines 596-613), in order
products_of(card_ranks, multiples, num_kickers, ranks) ==
    IF num_kickers = 0
    THEN <<prime_power_product(card_ranks, multiples)>>
    ELSE Table([i \in 1..Len(combinations(
                    Removed(backwards_ranks(ranks), card_ranks),
                    num_kickers)) |->
            prime_power_product(card_ranks, multiples)
                * prime_power_product(
                    combinations(Removed(backwards_ranks(ranks), card_ranks),
                                 num_kickers)[i],
                    Table([j \in 1..num_kickers |-> 1]))])

\* the choices of ranks for the multiples (lines 585-595): ordered when the
\* multiples differ
multiple_combinations(multiples, ranks) ==
    IF Cardinality({multiples[i] : i \in 1..Len(multiples)}) > 1
    THEN permutations(backwards_ranks(ranks), Len(multiples))
    ELSE combinations(backwards_ranks(ranks), Len(multiples))

\* every product add_to_dict of LookupTable._multiples records, in order
multiples_products(multiples, ranks, cards_for_hand) ==
    Chain(Table([i \in 1..Len(multiple_combinations(multiples, ranks)) |->
        products_of(multiple_combinations(multiples, ranks)[i], multiples,
                    cards_for_hand - SumSeq(multiples), ranks)]))

\* add_to_dict of LookupTable._multiples (lines 568-616): nothing for a
\* category whose cumulative count is 0; the ranks are counted up from
\* _get_rank and their number is asserted at the end; combinations() of a
\* negative number of kickers is a ValueError
add_multiples(rank_string, multiples, built, ranks, cards_for_hand, hand_dict) ==
    IF built.raised # "none" \/ hand_dict[rank_string].cumulative_unsuited = 0
    THEN built
    ELSE IF hand_dict[rank_string].rank = NoRank
    THEN Built(built.dict, "KeyError")
    ELSE IF /\ cards_for_hand < SumSeq(multiples)
            /\ multiple_combinations(multiples, ranks) # <<>>
    THEN Built(built.dict, "ValueError")
    ELSE IF Len(multiples_products(multiples, ranks, cards_for_hand))
                # hand_dict[rank_string].unsuited
    THEN Built(built.dict, "AssertionError")
    ELSE Built(inserted(multiples_products(multiples, ranks, cards_for_hand),
                        _get_rank(rank_string, hand_dict), built.dict),
               "none")

\* LookupTable._multiples
_multiples(ranks, cards_for_hand, unsuited_lookup, hand_dict) ==
    add_multiples("pair", <<2>>,
      add_multiples("two pair", <<2, 2>>,
        add_multiples("three of a kind", <<3>>,
          add_multiples("full house", <<3, 2>>,
            add_multiples("four of a kind", <<4>>, unsuited_lookup,
                          ranks, cards_for_hand, hand_dict),
            ranks, cards_for_hand, hand_dict),
          ranks, cards_for_hand, hand_dict),
        ranks, cards_for_hand, hand_dict),
      ranks, cards_for_hand, hand_dict)

\* LookupTable.__init__, lines 307-322, given hand_dict and what _flushes
\* gave: when no flush is counted suited_lookup is unsuited_lookup
table_of(hand_dict, order, flushes, unsuited) ==
    [hand_dict |-> hand_dict,
     ranked_hands |-> ranked_hands_of(hand_dict),
     max_rank |-> hand_dict[order[9]].cumulative_unsuited,
     suited_lookup |->
        IF hand_dict["flush"].cumulative_unsuited = 0
        THEN unsuited.dict ELSE flushes[1].dict,
     unsuited_lookup |-> unsuited.dict,
     raised |-> IF flushes[1].raised # "none" THEN flushes[1].raised
                ELSE unsuited.raised]

tables_of(hand_dict, order, flushes, ranks, cards_for_hand) ==
    table_of(hand_dict, order, flushes,
             IF flushes[1].raised # "none" THEN flushes[2]
             ELSE _multiples(ranks, cards_for_hand, flushes[2], hand_dict))

ranked_table(counts, order, ranks, cards_for_hand, low_end_straight) ==
    tables_of(ranked(counts, order), order,
              _flushes(ranks, cards_for_hand, low_end_straight,
                       ranked(counts, order)),
              ranks, cards_for_hand)

\* LookupTable(suits, ranks, cards_for_hand, low_end_straight), order None
LookupTable(suits, ranks, cards_for_hand, low_end_straight) ==
    ranked_table(hand_counts(suits, ranks, cards_for_hand, low_end_straight),
                 s_hands(hand_counts(suits, ranks, cards_for_hand,
                                     low_end_straight)),
                 ranks, cards_for_hand, low_end_straight)

\* Evaluator.__init__ (lines 36-59): the fields of the evaluator
Evaluator(suits, ranks, cards_for_hand, mandatory_hole_cards, low_end_straight) ==
    [suits |-> suits, ranks |-> ranks, cards_for_hand |-> cards_for_hand,
     mandatory_hole_cards |-> mandatory_hole_cards,
     table |-> LookupTable(suits, ranks, cards_for_hand, low_end_straight)]

\* the fields of self.evaluator.table the dealer reads
max_rank == evaluator.table.max_rank
suited_lookup == evaluator.table.suited_lookup
unsuited_lookup == evaluator.table.unsuited_lookup

\* LookupTable.lookup, given the two tables
lookup_in(cards, suited, unsuited) ==
    IF \A i \in 1..Len(cards) : CardSuit(cards[i]) = CardSuit(cards[1])
    THEN suited[prime_product_from_rank_bits(
                    {CardRank(cards[i]) : i \in 1..Len(cards)})]
    ELSE unsuited[prime_product_from_hand(cards)]

\* LookupTable.lookup
lookup(cards) == lookup_in(cards, suited_lookup, unsuited_lookup)

\* itertools.combinations: the k-element index sets of a list of length n
Combinations(n, k) == {S \in SUBSET (1..n) : Cardinality(S) = k}

\* the cards of a list at an index set, in list order
RECURSIVE Pick(_, _)
Pick(cards, S) ==
    IF S = {} THEN <<>>
    ELSE LET i == CHOOSE x \in S : \A y \in S : x <= y
         IN  <<cards[i]>> \o Pick(cards, S \ {i})

\* Evaluator.evaluate, lines 98-119: the card combinations to look up
all_card_combs(hole, community) ==
    IF mandatory_num_hole_cards # 0
    THEN {Pick(hole, H) \o Pick(community, C) :
            H \in Combinations(Len(hole), mandatory_num_hole_cards),
            C \in Combinations(Len(community),
                   num_cards_for_hand - mandatory_num_hole_cards)}
    ELSE {Pick(hole \o community, S) :
            S \in Combinations(Len(hole) + Len(community),
                               num_cards_for_hand)}

\* Evaluator.evaluate, lines 121-127: the least score, at most worst
least_score(scores, worst) ==
    CHOOSE m \in scores \cup {worst} : \A x \in scores \cup {worst} : m <= x

\* Evaluator.evaluate, given the two tables and table.max_rank
evaluate_in(hole, community, suited, unsuited, worst) ==
    least_score({lookup_in(c, suited, unsuited) :
                    c \in all_card_combs(hole, community)}, worst)

\* Evaluator.evaluate
evaluate(hole, community) ==
    evaluate_in(hole, community, suited_lookup, unsuited_lookup, max_rank)

-----------------------------------------------------------------------------
(* Dealer helpers (engine.py).  The methods that read and write the fields *)
(* of the dealer take the dealer record st and give the record afterwards. *)

\* raise sizes after clean_rs: an int, 'pot', or 'inf'
Fixed(n) == [kind |-> "int", size |-> n]
PotLimit == [kind |-> "pot", size |-> 0]
NoLimit  == [kind |-> "inf", size |-> 0]
\* raise caps after float(): a number or infinity
Cap(n) == [inf |-> FALSE, n |-> n]
NoCap  == [inf |-> TRUE, n |-> 0]

\* Dealer._move_action: the pointer goes to the first active seat among
\* action+1..action+N; the inactive seats passed on the way get
\* street_option = True
_move_action(st) ==
    LET hits == {idx \in 1..num_players :
                    st.active[(st.action + idx) % num_players]}
        stop == IF hits = {} THEN num_players
                ELSE CHOOSE idx \in hits : \A j \in hits : idx <= j
        skipped == {(st.action + idx) % num_players :
                        idx \in {j \in 1..stop :
                                    ~st.active[(st.action + j) % num_players]}}
    IN  [st EXCEPT
            !.action = (st.action + stop) % num_players,
            !.street_option = Table([s \in Seats |-> @[s] \/ s \in skipped])]

\* _collect_multiple_bets with the forced bets left in the stacks: the chips
\* of C4 are then no longer conserved
_collect_multiple_bets_unpaid(bets, to_street, st) ==
    LET posted == Table([s \in Seats |->
                    IF st.stacks[s] > 0 /\ st.active[s]
                    THEN bets[(s - st.action) % num_players] ELSE 0])
    IN  [st EXCEPT
            !.street_commits = IF to_street
                               THEN Table([s \in Seats |-> @[s] + posted[s]])
                               ELSE @,
            !.pot = @ + SumSeats(posted),
            !.pot_commits = Table([s \in Seats |-> @[s] + posted[s]])]

_collect_multiple_bets_to_street(bets, to_street, st) ==
    LET posted == Table([s \in Seats |->
                    IF st.stacks[s] > 0 /\ st.active[s]
                    THEN bets[(s - st.action) % num_players] ELSE 0])
    IN  [st EXCEPT
            !.street_commits = Table([s \in Seats |-> @[s] + posted[s]]),
            !.pot = @ + SumSeats(posted),
            !.pot_commits = Table([s \in Seats |-> @[s] + posted[s]]),
            !.stacks = Table([s \in Seats |-> @[s] - posted[s]])]

\* Dealer._collect_multiple_bets: the list is rolled so that bets[0] falls on
\* the seat the pointer is at; seats that are inactive or have no chips post
\* nothing, the others post the full amount
_collect_multiple_bets(bets, to_street, st) ==
    LET posted == Table([s \in Seats |->
                    IF st.stacks[s] > 0 /\ st.active[s]
                    THEN bets[(s - st.action) % num_players] ELSE 0])
    IN  [st EXCEPT
            !.street_commits = IF to_street
                               THEN Table([s \in Seats |-> @[s] + posted[s]])
                               ELSE @,
            !.pot = @ + SumSeats(posted),
            !.pot_commits = Table([s \in Seats |-> @[s] + posted[s]]),
            !.stacks = Table([s \in Seats |-> @[s] - posted[s]])]

\* the raise sizes when a call below the largest raise does not close the
\* raising
raise_sizes_reopened(call, st) ==
    LET raise_size == raise_sizes[st.street]
        capped == /\ ~num_raises[st.street].inf
                  /\ st.street_raises >= num_raises[st.street].n
    IN  IF capped THEN [min_raise |-> 0, max_raise |-> 0]
        ELSE IF raise_size.kind = "int"
        THEN [min_raise |-> raise_size.size + call,
              max_raise |-> raise_size.size + call]
        ELSE [min_raise |-> Max2(big_blind, st.largest_raise + call),
              max_raise |-> IF raise_size.kind = "pot"
                            THEN st.pot + call * 2 ELSE st.stacks[st.action]]

\* Dealer._bet_sizes, lines 549-569, for the call already computed
raise_sizes_for(call, st) ==
    LET raise_size == raise_sizes[st.street]
        capped == \/ /\ ~num_raises[st.street].inf
                     /\ st.street_raises >= num_raises[st.street].n
                  \/ st.street_raises # 0 /\ call < st.largest_raise
    IN  IF capped THEN [min_raise |-> 0, max_raise |-> 0]
        ELSE IF raise_size.kind = "int"
        THEN [min_raise |-> raise_size.size + call,
              max_raise |-> raise_size.size + call]
        ELSE [min_raise |-> Max2(big_blind, st.largest_raise + call),
              max_raise |-> IF raise_size.kind = "pot"
                            THEN st.pot + call * 2 ELSE st.stacks[st.action]]

\* Dealer._bet_sizes, lines 570-574: the sizes clipped to the stack
clipped(call, raises, stack) ==
    [call |-> Min2(call, stack),
     min_raise |-> Min2(raises.min_raise, stack),
     max_raise |-> Min2(raises.max_raise, stack)]

call_for_uncredited(st) == MaxSeats(st.street_commits)

\* the call before clipping (engine.py 549)
call_for(st) == MaxSeats(st.street_commits) - st.street_commits[st.action]

\* Dealer._bet_sizes
_bet_sizes(st) ==
    clipped(call_for(st), raise_sizes_for(call_for(st), st),
            st.stacks[st.action])

\* argmin: index (from 0) of the first least value
argmin(values) ==
    (CHOOSE i \in 1..Len(values) :
        /\ \A j \in 1..Len(values) : values[i] <= values[j]
        /\ \A j \in 1..(i - 1) : values[j] > values[i]) - 1

\* the cleaned bet when a raise is not held to max_raise
sized_above_max_raise(idx, bet, call, min_raise, max_raise) ==
    IF idx = 1 THEN call
    ELSE IF idx \in {2, 3} THEN Max2(min_raise, bet)
    ELSE 0

\* Dealer._clean_bet, lines 582-589, for idx already computed
sized(idx, bet, call, min_raise, max_raise) ==
    IF idx = 1 THEN call
    ELSE IF idx \in {2, 3} THEN Min2(max_raise, Max2(min_raise, bet))
    ELSE 0

\* Dealer._clean_bet, line 581, for a bet already made non-negative
nearest(bet, call, min_raise, max_raise) ==
    sized(argmin(<<Abs(0 - bet), Abs(call - bet), Abs(min_raise - bet),
                   Abs(max_raise - bet)>>),
          bet, call, min_raise, max_raise)

\* Dealer._clean_bet
_clean_bet(bet, call, min_raise, max_raise) ==
    nearest(Max2(0, bet), call, min_raise, max_raise)

\* round(bet) for a bet given in half chips: Python rounds halves to even
Round(bet2) ==
    IF bet2 % 2 = 0 THEN bet2 \div 2
    ELSE IF ((bet2 - 1) \div 2) % 2 = 0 THEN (bet2 - 1) \div 2
    ELSE (bet2 + 1) \div 2

\* Dealer._all_agreed
_all_agreed(st) ==
    /\ \A s \in Seats : st.street_option[s]
    /\ \A s \in Seats :
        \/ st.street_commits[s] = MaxSeats(st.street_commits)
        \/ st.stacks[s] = 0
        \/ ~st.active[s]

\* Dealer._done
_done(st) ==
    IF st.street >= num_streets \/ CountTrue(st.active) <= 1
    THEN Table([s \in Seats |-> TRUE])
    ELSE Table([s \in Seats |-> ~st.active[s] \/ st.stacks[s] = 0])

\* Dealer._eval_hands, given the evaluator's tables: inactive seats get one
\* worse than the worst rank
hand_strengths(st, suited, unsuited, worst) ==
    Table([s \in Seats |->
        IF st.active[s]
        THEN evaluate_in(st.hole_cards[s], st.community_cards,
                         suited, unsuited, worst)
        ELSE worst + 1])

\* Dealer._eval_hands
_eval_hands(st) ==
    hand_strengths(st, suited_lookup, unsuited_lookup, max_rank)

\* the sort key of sorted(hands, key=itemgetter(1, 2)): hand strength, then
\* pot commit; the sort is stable, so seats with equal keys keep their order
before(q, s, strength, commits) ==
    \/ strength[q] < strength[s]
    \/ strength[q] = strength[s] /\ commits[q] < commits[s]
    \/ strength[q] = strength[s] /\ commits[q] = commits[s] /\ q < s

\* the seat at position i (from 1) of the sorted hands
seat_at(i, strength, commits) ==
    CHOOSE s \in Seats :
        Cardinality({q \in Seats : before(q, s, strength, commits)}) = i - 1

\* an entry [player_idx, hand_strength, pot_commit] of hands
hand_of(s, strength, commits) ==
    [player |-> s, strength |-> strength[s], commit |-> commits[s]]

\* Dealer._eval_round, lines 694-699: the sorted hands
sorted_hands(strength, commits) ==
    Table([i \in 1..num_players |->
            hand_of(seat_at(i, strength, commits), strength, commits)])

\* Dealer._eval_round, lines 707-711: the seats whose hand has this strength
eligible_for(hands, strength) ==
    {hands[j].player : j \in {k \in 1..num_players : hands[k].strength = strength}}

\* Dealer._eval_round, line 713
cut_for(hands, pot_commit) ==
    Table([j \in 1..num_players |-> Min2(hands[j].commit, pot_commit)])

\* Dealer._eval_round, lines 717-727: the hand at hand_idx is paid; r holds
\* hands, pot, remainder and payouts
share(r, hand_idx, eligible, cut) ==
    [hands |-> Table([j \in 1..num_players |->
                    [player |-> r.hands[j].player,
                     strength |-> IF j = hand_idx THEN max_rank + 1
                                  ELSE r.hands[j].strength,
                     commit |-> r.hands[j].commit - cut[j]]]),
     pot |-> r.pot - SumSeq(cut),
     remainder |-> r.remainder + (SumSeq(cut) % Cardinality(eligible)),
     payouts |-> Table([s \in Seats |->
                    r.payouts[s] + IF s \in eligible
                                   THEN SumSeq(cut) \div Cardinality(eligible)
                                   ELSE 0])]

\* the loop of Dealer._eval_round (engine.py 706-729) from position hand_idx
\* of the sorted hands
RECURSIVE split_pots(_, _)

\* lines 728-729: the loop ends when the pot is empty
split_rest(hand_idx, r) ==
    IF r.pot = 0 THEN r ELSE split_pots(hand_idx + 1, r)

split_pots(hand_idx, r) ==
    IF hand_idx > num_players THEN r
    ELSE IF SumSeq(cut_for(r.hands, r.hands[hand_idx].commit)) = 0
    THEN split_pots(hand_idx + 1, r)
    ELSE split_rest(hand_idx,
            share(r, hand_idx,
                  eligible_for(r.hands, r.hands[hand_idx].strength),
                  cut_for(r.hands, r.hands[hand_idx].commit)))

\* the remainder loop of Dealer._eval_round (engine.py 731-736): it looks at
\* payouts[player_idx + button % num_players] for player_idx = 1..N and adds
\* the remainder to payouts[player_idx]; an index at or past N is an
\* IndexError (raised = TRUE)
give_remainder(r, btn) ==
    LET offset == btn % num_players
        stop == CHOOSE player_idx \in 1..num_players :
                  /\ \/ player_idx + offset >= num_players
                     \/ r.payouts[player_idx + offset] # 0
                  /\ \A j \in 1..(player_idx - 1) :
                        j + offset < num_players /\ r.payouts[j + offset] = 0
    IN  IF r.remainder = 0 THEN [payouts |-> r.payouts, raised |-> FALSE]
        ELSE IF stop + offset >= num_players
        THEN [payouts |-> r.payouts, raised |-> TRUE]
        ELSE [payouts |-> [r.payouts EXCEPT ![stop] = @ + r.remainder],
              raised |-> FALSE]

\* Dealer._eval_round: gross payouts, or raised = TRUE for the IndexError
_eval_round(st) ==
    give_remainder(
        split_pots(1, [hands |-> sorted_hands(_eval_hands(st), st.pot_commits),
                       pot |-> st.pot,
                       remainder |-> 0,
                       payouts |-> Table([s \in Seats |-> 0])]),
        st.button)

\* net with the pot commits not taken off: the winner of a showdown is then
\* paid the whole pot, against C12
net_of_nothing(showdown, commits) ==
    [payouts |-> showdown.payouts, raised |-> showdown.raised]

\* Dealer._payouts, lines 667-670: the showdown payouts net of the commits
net(showdown, commits) ==
    [payouts |-> Table([s \in Seats |-> showdown.payouts[s] - commits[s]]),
     raised |-> showdown.raised]

\* Dealer._payouts: net payouts, or raised = TRUE for the IndexError
_payouts(st) ==
    IF CountTrue(st.active) = 1
    THEN [payouts |-> Table([s \in Seats |->
                        IF st.active[s] THEN st.pot - st.pot_commits[s]
                        ELSE -1 * st.pot_commits[s]]),
          raised |-> FALSE]
    ELSE IF st.street >= num_streets
    THEN net(_eval_round(st), st.pot_commits)
    ELSE [payouts |-> Table([s \in Seats |->
                        IF st.active[s] THEN 0 ELSE -1 * st.pot_commits[s]]),
          raised |-> FALSE]

-----------------------------------------------------------------------------
(* The dealer as a record, and the calls reset and step *)

self ==
    [action |-> action, active |-> active, button |-> button,
     community_cards |-> community_cards, deck |-> deck, history |-> history,
     hole_cards |-> hole_cards, largest_raise |-> largest_raise, pot |-> pot,
     pot_commits |-> pot_commits, stacks |-> stacks, street |-> street,
     street_commits |-> street_commits, street_option |-> street_option,
     street_raises |-> street_raises]

Becomes(st) ==
    /\ action' = st.action
    /\ active' = st.active
    /\ button' = st.button
    /\ community_cards' = st.community_cards
    /\ deck' = st.deck
    /\ history' = st.history
    /\ hole_cards' = st.hole_cards
    /\ largest_raise' = st.largest_raise
    /\ pot' = st.pot
    /\ pot_commits' = st.pot_commits
    /\ stacks' = st.stacks
    /\ street' = st.street
    /\ street_commits' = st.street_commits
    /\ street_option' = st.street_option
    /\ street_raises' = st.street_raises

Zeros == Table([s \in Seats |-> 0])
AllFalse == Table([s \in Seats |-> FALSE])
AllTrue == Table([s \in Seats |-> TRUE])

\* the record of a call that placed no bet: op is the method called (see
\* Placed for the fields)
Call(op) ==
    [op |-> op, fold |-> FALSE, seat |-> -1, call |-> 0, min_raise |-> 0,
     max_raise |-> 0, clean |-> 0, bet |-> 0, collected |-> 0, paid |-> 0,
     stacks |-> Zeros, active |-> AllFalse]

\* the bets submitted to step, in half chips (step takes a float)
Bets2 == (-1)..MaxBet2

seated_with_any_stack(st, reset_stacks) ==
    [st EXCEPT
        !.active = IF reset_stacks THEN AllTrue
                   ELSE Table([s \in Seats |-> st.stacks[s] >= 0]),
        !.stacks = IF reset_stacks THEN Table([s \in Seats |-> start_stack])
                   ELSE @]

\* Dealer.reset, lines 276-280: active and stacks at the start of a hand
seated(st, reset_stacks) ==
    [st EXCEPT
        !.active = IF reset_stacks THEN AllTrue
                   ELSE Table([s \in Seats |-> st.stacks[s] > 0]),
        !.stacks = IF reset_stacks THEN Table([s \in Seats |-> start_stack])
                   ELSE @]

\* Dealer.reset, lines 285-304: comm is the draw of the community cards from
\* the shuffled deck, the hole cards are drawn from the rest seat by seat
dealt(st, btn, comm) ==
    [st EXCEPT
        !.button = btn,
        !.community_cards = comm.drawn,
        !.history = <<>>,
        !.hole_cards = Table([s \in Seats |->
                        Draw(Draw(comm.rest, s * num_hole_cards).rest,
                             num_hole_cards).drawn]),
        !.deck = Draw(comm.rest, num_players * num_hole_cards).rest,
        !.largest_raise = big_blind,
        !.pot = 0,
        !.pot_commits = Zeros,
        !.street = 0,
        !.street_commits = Zeros,
        !.street_option = AllFalse,
        !.street_raises = 0,
        !.action = btn]

post_from_button(st) ==
    _move_action(_move_action(
        _collect_multiple_bets(blinds, TRUE,
            _collect_multiple_bets(antes, FALSE, st))))

\* Dealer.reset, lines 305-311: in heads up the button posts the small blind
post(st) ==
    _move_action(_move_action(
        _collect_multiple_bets(blinds, TRUE,
            _collect_multiple_bets(antes, FALSE,
                IF num_players > 2 THEN _move_action(st) ELSE st))))

\* Dealer.reset, lines 285-311, once active and stacks are set
deal(st, reset_button, cards) ==
    post(dealt(st, IF reset_button THEN 0 ELSE (st.button + 1) % num_players,
               Draw(cards, num_community_cards[0])))

\* Dealer.reset(reset_button, reset_stacks)
Reset(reset_button, reset_stacks) ==
    \* a hand is started when none is in progress or the last call failed
    /\ action = -1 \/ error # "none"
    /\ last' = Call("reset")
    /\ payouts' = Zeros
    /\ done' = AllFalse
    /\ \E st0 \in {seated(self, reset_stacks)} :
        IF ~reset_stacks /\ CountTrue(st0.active) <= 1
        THEN /\ Becomes(st0)
             /\ error' = "TooFewActivePlayersError"
             /\ UNCHANGED carried
        ELSE \* stacks are carried over MaxCarried times
             /\ reset_stacks \/ carried < MaxCarried
             /\ \E cards \in Shuffles :
                \E st \in {deal(st0, reset_button, cards)} : Becomes(st)
             /\ error' = "none"
             /\ carried' = IF reset_stacks THEN 0 ELSE carried + 1
    /\ UNCHANGED <<config, trick>>

\* the loop of Dealer.step, lines 392-406: streets are dealt one by one; it
\* stops at the first street to be played, or runs through every remaining
\* street when at most one active seat still has chips
RECURSIVE deal_streets(_, _)
deal_streets(st, all_all_in) ==
    IF st.street + 1 >= num_streets THEN [st EXCEPT !.street = @ + 1]
    ELSE IF ~all_all_in
    THEN [st EXCEPT
            !.street = @ + 1,
            !.community_cards =
                @ \o Draw(st.deck, num_community_cards[st.street + 1]).drawn,
            !.deck = Draw(st.deck, num_community_cards[st.street + 1]).rest]
    ELSE deal_streets(
            [st EXCEPT
                !.street = @ + 1,
                !.community_cards =
                    @ \o Draw(st.deck, num_community_cards[st.street + 1]).drawn,
                !.deck = Draw(st.deck, num_community_cards[st.street + 1]).rest],
            all_all_in)

\* Dealer.step, lines 395-399
all_all_in(st) ==
    CountTrue(st.active)
        - Cardinality({s \in Seats : st.active[s] /\ st.stacks[s] = 0}) <= 1

\* new_street with the options of the last street kept: the new street
\* starts with every seat agreed, against C7
new_street_keeps_option(st) ==
    [st EXCEPT !.street_commits = Zeros,
               !.street_raises = 0]

\* the street reset with largest_raise put back to the big blind: the
\* largest raise then decreases within a hand, against C39
new_street_resets_largest_raise(st) ==
    [st EXCEPT !.street_commits = Zeros,
               !.street_option = Table([s \in Seats |-> ~st.active[s]]),
               !.street_raises = 0,
               !.largest_raise = big_blind]

\* Dealer.step, lines 407-409
new_street(st) ==
    [st EXCEPT !.street_commits = Zeros,
               !.street_option = Table([s \in Seats |-> ~st.active[s]]),
               !.street_raises = 0]

\* the next street with the action left where the last street ended: the
\* seat after the last one to act then opens the street, against C32
next_street_from_last_seat(st) ==
    new_street(deal_streets(st, all_all_in(st)))

\* Dealer.step, lines 388-409: the move to the next street
next_street(st) ==
    new_street(deal_streets(_move_action([st EXCEPT !.action = st.button]),
                            all_all_in(st)))

\* the fold rule without the test of the call: a negative bet then folds a
\* seat that has nothing to call, against C37
folds_without_call(call, bet, fold) == bet < call \/ fold

\* only fold if player cannot check (engine.py 370): call is tested for
\* truth, so any call other than 0 counts
folds(call, bet, fold) == call # 0 /\ (bet < call \/ fold)

\* a full raise is recorded as the largest raise (engine.py 375)
full_raise(bet, call, largest) == bet # 0 /\ (bet - call) >= largest

\* _collect_bet with the pot commit forgotten: the pot then differs from the
\* sum of the pot commits, against C1
_collect_bet_uncommitted(bet, st) ==
    [st EXCEPT !.pot = @ + Min2(st.stacks[st.action], bet),
               !.street_commits[st.action] = @ + Min2(st.stacks[st.action], bet),
               !.stacks[st.action] = @ - Min2(st.stacks[st.action], bet)]

\* Dealer._collect_bet, lines 611-618
_collect_bet(bet, st) ==
    [st EXCEPT !.pot = @ + Min2(st.stacks[st.action], bet),
               !.pot_commits[st.action] = @ + Min2(st.stacks[st.action], bet),
               !.street_commits[st.action] = @ + Min2(st.stacks[st.action], bet),
               !.stacks[st.action] = @ - Min2(st.stacks[st.action], bet)]

\* settle with the pot commits not given back: the last seat then gains less
\* than the pot, against C9
settle_keeps_commits(st, pay) ==
    [st EXCEPT !.action = -1,
               !.pot = 0,
               !.stacks = Table([s \in Seats |-> @[s] + pay[s]])]

\* Dealer.step, lines 414-421: the settlement when every seat is done
settle(st, pay) ==
    [st EXCEPT !.action = -1,
               !.pot = 0,
               !.stacks = Table([s \in Seats |->
                            @[s] + pay[s] + st.pot_commits[s]])]

\* Dealer.step, lines 411-423; c is the record of the call (see Placed).  The
\* result holds the table after the call and what the call returns; raised
\* says that _payouts raised an IndexError
step_settle(st, c, d, p) ==
    [call |-> [c EXCEPT !.paid = st.pot],
     raised |-> p.raised,
     payouts |-> p.payouts,
     done |-> d,
     table |-> IF ~p.raised /\ (\A s \in Seats : d[s])
               THEN settle(st, p.payouts) ELSE st]

\* Dealer.step, lines 411-412
step_done(st, c) == step_settle(st, c, _done(st), _payouts(st))

\* Dealer.step, lines 386-409: if all agreed go to next street
step_street(st, c) ==
    step_done(IF _all_agreed(st) THEN next_street(st) ELSE st, c)

\* Dealer.step, lines 381-384
step_move(st, c) ==
    step_street(
        _move_action([st EXCEPT
            !.history = Append(@, <<st.action, c.bet, c.fold>>),
            !.street_option[st.action] = TRUE]),
        c)

\* Dealer.step, line 379
step_collect(st, c) ==
    step_move(_collect_bet(c.bet, st),
              [c EXCEPT !.collected = Min2(st.stacks[st.action], c.bet)])

\* Dealer.step, lines 374-377
step_raise(st, c) ==
    step_collect(
        IF full_raise(c.bet, c.call, st.largest_raise)
        THEN [st EXCEPT !.largest_raise = c.bet - c.call,
                        !.street_raises = @ + 1]
        ELSE st,
        c)

\* Dealer.step, lines 369-372
step_fold(st, c) ==
    step_raise(
        IF folds(c.call, c.clean, c.fold)
        THEN [st EXCEPT !.active[st.action] = FALSE] ELSE st,
        [c EXCEPT !.bet = IF folds(c.call, c.clean, c.fold) THEN 0 ELSE c.clean])

\* the record of a call of step that places a bet: fold says the submitted
\* bet was negative, seat is the seat that acted, call, min_raise, max_raise
\* are what _bet_sizes returned, clean is what _clean_bet returned, bet is
\* the bet after the fold rule, collected the chips _collect_bet took, paid
\* the pot when the payouts were computed, and stacks, active are the fields
\* as they were when the call was made
Placed(st, fold, sizes, clean) ==
    [op |-> "step", fold |-> fold, seat |-> st.action, call |-> sizes.call,
     min_raise |-> sizes.min_raise, max_raise |-> sizes.max_raise,
     clean |-> clean, bet |-> clean, collected |-> 0, paid |-> 0,
     stacks |-> st.stacks, active |-> st.active]

\* Dealer.step, lines 365-367
step_clean(st, fold, bet, sizes) ==
    step_fold(st, Placed(st, fold, sizes,
                         _clean_bet(bet, sizes.call, sizes.min_raise,
                                    sizes.max_raise)))

\* Dealer.step(bet), lines 362-423, on the table st with a seat to act; bet2
\* is the bet in half chips
step(st, bet2) == step_clean(st, bet2 < 0, Round(bet2), _bet_sizes(st))

StepIdleNeverRaises ==
    /\ action = -1
    /\ last' = Call("step")
    /\ \E p \in {_payouts(self)} :
            IF p.raised
            THEN error' = "IndexError" /\ UNCHANGED <<payouts, done>>
            ELSE /\ error' = "none"
                 /\ payouts' = p.payouts
                 /\ done' = _done(self)
    /\ UNCHANGED <<config, table, trick, carried>>

\* Dealer.step(bet) on a table whose hand is over or was never started
\* (engine.py 354-360); the bet is not read
StepIdle ==
    /\ action = -1
    /\ last' = Call("step")
    /\ IF \E s \in Seats : active[s]
       THEN \E p \in {_payouts(self)} :
                IF p.raised
                THEN error' = "IndexError" /\ UNCHANGED <<payouts, done>>
                ELSE /\ error' = "none"
                     /\ payouts' = p.payouts
                     /\ done' = _done(self)
       ELSE error' = "TableResetError" /\ UNCHANGED <<payouts, done>>
    /\ UNCHANGED <<config, table, trick, carried>>

\* Dealer.step(bet) when a failed settlement left the street counter at
\* num_streets: raise_sizes[street] in _bet_sizes is an IndexError
StepPastLastStreet ==
    /\ action # -1
    /\ street >= num_streets
    /\ last' = Call("step")
    /\ error' = "IndexError"
    /\ UNCHANGED <<config, table, trick, payouts, done, carried>>

\* Dealer.step(bet) with a seat to act
Step(bet2) ==
    /\ action # -1
    /\ street < num_streets
    /\ Len(history) < MaxHistory
    /\ \E r \in {step(self, bet2)} :
        /\ last' = r.call
        /\ Becomes(r.table)
        /\ IF r.raised
           THEN error' = "IndexError" /\ UNCHANGED <<payouts, done>>
           ELSE error' = "none" /\ payouts' = r.payouts /\ done' = r.done
    /\ UNCHANGED <<config, trick, carried>>

-----------------------------------------------------------------------------
(* Configurations and the specification *)

\* a Python list as a function on 0..len-1
List(q) == Table([i \in 0..(Len(q) - 1) |-> q[i + 1]])
\* check_inp (engine.py 136-143): a scalar is expanded to a list
Expand(v, n) == Table([i \in 0..(n - 1) |-> v])

\* the rules of a table; unless changed, hands are one card out of a deck of
\* two ranks in two suits, one hole card per seat, as in KUHN_TWO_PLAYER and
\* KUHN_THREE_PLAYER (configs.py)
Rules(n, ns, bl, an, rs, nr, ncc, stack) ==
    [num_players |-> n, num_streets |-> ns, blinds |-> bl, antes |-> an,
     raise_sizes |-> rs, num_raises |-> nr, num_suits |-> 2, num_ranks |-> 2,
     num_hole_cards |-> 1,
     num_community_cards |-> ncc, num_cards_for_hand |-> 1,
     mandatory_num_hole_cards |-> 0, low_end_straight |-> TRUE,
     start_stack |-> stack]

\* heads-up tables, scaled down from configs.py
HeadsUpRules == {
    \* KUHN_TWO_PLAYER
    Rules(2, 1, Expand(0, 2), Expand(1, 2), Expand(Fixed(1), 1),
          Expand(Cap(1), 1), Expand(0, 1), 3),
    \* two streets of fixed-limit betting with antes
    Rules(2, 2, Expand(0, 2), Expand(1, 2), List(<<Fixed(1), Fixed(2)>>),
          Expand(Cap(2), 2), List(<<0, 1>>), 3),
    \* LIMIT_HOLDEM_TWO_PLAYER
    Rules(2, 2, List(<<1, 2>>), Expand(0, 2), List(<<Fixed(2), Fixed(1)>>),
          Expand(Cap(1), 2), List(<<0, 1>>), 3),
    \* NO_LIMIT_HOLDEM_TWO_PLAYER
    Rules(2, 2, List(<<1, 2>>), Expand(0, 2), Expand(NoLimit, 2),
          Expand(NoCap, 2), List(<<0, 1>>), 3),
    \* POT_LIMIT_OMAHA_TWO_PLAYER
    Rules(2, 2, List(<<1, 2>>), Expand(0, 2), Expand(PotLimit, 2),
          Expand(NoCap, 2), List(<<0, 1>>), 3),
    \* no-limit with the blinds and stacks of NO_LIMIT_HOLDEM_TWO_PLAYER, as
    \* test_heads_up (test_misc.py 39-57) plays it
    Rules(2, 1, List(<<1, 2>>), Expand(0, 2), Expand(NoLimit, 1),
          Expand(NoCap, 1), Expand(0, 1), 200),
    \* no-limit with antes and no blinds (big blind 0)
    Rules(2, 1, Expand(0, 2), Expand(1, 2), Expand(NoLimit, 1),
          Expand(NoCap, 1), Expand(0, 1), 3),
    \* a single blind posted by the button (big blind 0), no raises
    Rules(2, 1, List(<<1, 0>>), Expand(0, 2), Expand(Fixed(1), 1),
          Expand(Cap(0), 1), Expand(0, 1), 3),
    \* blinds 1-2 on top of an ante of 1 from every seat
    Rules(2, 1, List(<<1, 2>>), Expand(1, 2), Expand(Fixed(1), 1),
          Expand(Cap(1), 1), Expand(0, 1), 4),
    \* no-limit with blinds 1-2 and stacks of six chips: a seat that has
    \* lost a blind is left short of a full re-raise of the button's raise
    Rules(2, 1, List(<<1, 2>>), Expand(0, 2), Expand(NoLimit, 1),
          Expand(NoCap, 1), Expand(0, 1), 6),
    \* pot-limit with one blind of a chip and stacks of four chips: the pot
    \* and twice the call are less than the stack of the first seat to act
    Rules(2, 1, List(<<0, 1>>), Expand(0, 2), Expand(PotLimit, 1),
          Expand(NoCap, 1), Expand(0, 1), 4),
    \* fixed-limit with blinds 1-2, a raise of 2 on the first street and of
    \* 1 on the second, one raise a street, and stacks of four chips, which
    \* pay for a bet and a raise on the second street
    Rules(2, 2, List(<<1, 2>>), Expand(0, 2), List(<<Fixed(2), Fixed(1)>>),
          Expand(Cap(1), 2), List(<<0, 1>>), 4),
    \* two streets of no-limit with one blind of a chip and stacks of five
    \* chips: a raise of two chips on the first street can be called with
    \* two chips left to open the second
    Rules(2, 2, List(<<0, 1>>), Expand(0, 2), Expand(NoLimit, 2),
          Expand(NoCap, 2), List(<<0, 1>>), 5)}

\* three-handed tables
ThreeHandedRules == {
    \* KUHN_THREE_PLAYER
    Rules(3, 1, Expand(0, 3), Expand(1, 3), Expand(Fixed(1), 1),
          Expand(Cap(1), 1), Expand(0, 1), 3),
    \* no-limit with blinds 1-2 and stacks of one big blind
    Rules(3, 1, List(<<1, 2, 0>>), Expand(0, 3), Expand(NoLimit, 1),
          Expand(NoCap, 1), Expand(0, 1), 2),
    \* a big blind ante, as in the Dealer docstring (antes [0, 0, 5])
    Rules(3, 1, Expand(0, 3), List(<<0, 0, 2>>), Expand(Fixed(1), 1),
          Expand(Cap(1), 1), Expand(0, 1), 3),
    \* a single blind of 1 (big blind 0) and no raises allowed
    Rules(3, 1, List(<<1, 0, 0>>), Expand(0, 3), Expand(Fixed(1), 1),
          Expand(Cap(0), 1), Expand(0, 1), 3),
    \* two streets with antes, one fixed-limit raise on the first street
    \* and none on the second: a seat that folds on the first street is
    \* passed over when the second is opened
    Rules(3, 2, Expand(0, 3), Expand(1, 3), Expand(Fixed(1), 2),
          List(<<Cap(1), Cap(0)>>), List(<<0, 1>>), 3)}

\* a four-handed table with the blinds of NO_LIMIT_HOLDEM_SIX_PLAYER
\* (configs.py 150), which test_reset (test_misc.py 60-75) plays: the
\* blinds 1-2 are followed by seats that post nothing
FourHandedRules == {
    Rules(4, 1, List(<<1, 2, 0, 0>>), Expand(0, 4), Expand(Fixed(1), 1),
          Expand(Cap(0), 1), Expand(0, 1), 3)}

\* ranks and suits as card.py numbers them
Queen == 10
King == 11
Ace == 12
Spades == 1
Hearts == 2

\* decks of kings and aces in spades and hearts, with three top cards named
\* to Deck.trick
HeadsUpTricks == {
    <<Card(Ace, Spades), Card(King, Spades), Card(King, Hearts)>>,
    <<Card(Ace, Spades), Card(Ace, Hearts), Card(King, Spades)>>}

ThreeHandedTricks == {
    <<Card(Ace, Spades), Card(King, Spades), Card(King, Hearts)>>,
    <<Card(Ace, Spades), Card(King, Spades), Card(Ace, Hearts)>>}

FourHandedTricks ==
    {<<Card(Ace, Spades), Card(King, Spades), Card(King, Hearts)>>}

\* LEDUC_TWO_PLAYER (configs.py 24-40): two-card hands out of a deck of
\* three ranks in two suits
LeducRules ==
    [Rules(2, 2, Expand(0, 2), Expand(1, 2), Expand(Fixed(2), 2),
           Expand(Cap(2), 2), List(<<0, 1>>), 10)
        EXCEPT !.num_ranks = 3, !.num_cards_for_hand = 2]

\* the trick of test_game (test_misc.py 15-17), queen of spades, king of
\* spades, queen of hearts, and one that deals a tie; two more cards are
\* named so that one card is left to shuffle
LeducTricks == {
    <<Card(Queen, Spades), Card(King, Spades), Card(Queen, Hearts),
      Card(King, Hearts), Card(Ace, Spades)>>,
    <<Card(Queen, Spades), Card(Queen, Hearts), Card(King, Spades),
      Card(King, Hearts), Card(Ace, Spades)>>}

Configs ==
    {[rules |-> r, top_cards |-> t] : r \in HeadsUpRules, t \in HeadsUpTricks}
    \cup {[rules |-> r, top_cards |-> t] :
            r \in ThreeHandedRules, t \in ThreeHandedTricks}
    \cup {[rules |-> LeducRules, top_cards |-> t] : t \in LeducTricks}
    \cup {[rules |-> r, top_cards |-> t] :
            r \in FourHandedRules, t \in FourHandedTricks}

\* a dealer as test_game (test_misc.py) makes it: Dealer(**config), whose
\* deck is shuffled by Deck.__init__, then deck.trick(top_cards)
Construct(c) ==
    /\ num_players = c.rules.num_players
    /\ num_streets = c.rules.num_streets
    /\ blinds = c.rules.blinds
    /\ antes = c.rules.antes
    /\ big_blind = c.rules.blinds[1]
    /\ raise_sizes = c.rules.raise_sizes
    /\ num_raises = c.rules.num_raises
    /\ num_suits = c.rules.num_suits
    /\ num_ranks = c.rules.num_ranks
    /\ num_hole_cards = c.rules.num_hole_cards
    /\ num_community_cards = c.rules.num_community_cards
    /\ num_cards_for_hand = c.rules.num_cards_for_hand
    /\ mandatory_num_hole_cards = c.rules.mandatory_num_hole_cards
    /\ start_stack = c.rules.start_stack
    /\ evaluator = Evaluator(c.rules.num_suits, c.rules.num_ranks,
                             c.rules.num_cards_for_hand,
                             c.rules.mandatory_num_hole_cards,
                             c.rules.low_end_straight)
    /\ action = -1
    /\ active = AllFalse
    /\ button = 0
    /\ community_cards = <<>>
    /\ deck \in Orders(full_deck)
    /\ history = <<>>
    /\ hole_cards = <<>>
    /\ largest_raise = 0
    /\ pot = 0
    /\ pot_commits = Zeros
    /\ stacks = Table([s \in Seats |-> start_stack])
    /\ street = 0
    /\ street_commits = Zeros
    /\ street_option = AllFalse
    /\ street_raises = 0
    /\ _tricked = TRUE
    /\ _top_idcs = top_idcs_of(c.top_cards)
    /\ _bottom_idcs = bottom_idcs_of(c.top_cards)
    /\ last = Call("init")
    /\ payouts = Zeros
    /\ done = AllFalse
    /\ error = "none"
    /\ carried = 0

Init == \E c \in Configs : Construct(c)

DoReset == \E reset_button \in BOOLEAN, reset_stacks \in BOOLEAN :
                Reset(reset_button, reset_stacks)

DoStep == \E bet2 \in Bets2 : Step(bet2)

Next ==
    \/ DoReset
    \/ DoStep
    \/ StepIdle
    \/ StepPastLastStreet

Spec == Init /\ [][Next]_vars

-----------------------------------------------------------------------------
(* A Deck on its own (card.py 142-274), as test_card.py uses it: the Dealer *)
(* fields are not there and stay as they are.                               *)

dealer == <<num_players, num_streets, blinds, antes, big_blind, raise_sizes,
            num_raises, num_hole_cards, num_community_cards,
            num_cards_for_hand, mandatory_num_hole_cards, start_stack,
            evaluator, action, active, button, community_cards, history, hole_cards,
            largest_raise, pot, pot_commits, stacks, street, street_commits,
            street_option, street_raises, payouts, done, carried>>

\* what the last call on the deck received and returned; returned counts the
\* cards handed out by draw since the deck was last shuffled
DeckCall(op, n, drawn, returned) ==
    [op |-> op, n |-> n, drawn |-> drawn, returned |-> returned]

\* Deck(num_suits, num_ranks): Deck.__init__ ends with an untricked shuffle
DeckAlone(suits, ranks) ==
    /\ num_suits = suits
    /\ num_ranks = ranks
    /\ _tricked = FALSE
    /\ _top_idcs = <<>>
    /\ _bottom_idcs = <<>>
    /\ deck \in Orders(full_deck)
    /\ last = DeckCall("init", 0, <<>>, 0)
    /\ error = "none"
    /\ num_players = 0 /\ num_streets = 0 /\ blinds = <<>> /\ antes = <<>>
    /\ big_blind = 0 /\ raise_sizes = <<>> /\ num_raises = <<>>
    /\ num_hole_cards = 0 /\ num_community_cards = <<>>
    /\ num_cards_for_hand = 0 /\ mandatory_num_hole_cards = 0
    /\ start_stack = 0 /\ evaluator = <<>>
    /\ action = -1 /\ active = <<>> /\ button = 0 /\ community_cards = <<>>
    /\ history = <<>> /\ hole_cards = <<>> /\ largest_raise = 0 /\ pot = 0
    /\ pot_commits = <<>> /\ stacks = <<>> /\ street = 0
    /\ street_commits = <<>> /\ street_option = <<>> /\ street_raises = 0
    /\ payouts = <<>> /\ done = <<>> /\ carried = 0

\* Deck.draw(n)
DeckDraw(n) ==
    /\ deck' = Draw(deck, n).rest
    /\ last' = DeckCall("draw", n, Draw(deck, n).drawn,
                        last.returned + Len(Draw(deck, n).drawn))
    /\ UNCHANGED <<dealer, num_suits, num_ranks, trick, error>>

\* Deck.shuffle()
DeckShuffle ==
    /\ deck' \in Shuffles
    /\ last' = DeckCall("shuffle", 0, <<>>, 0)
    /\ UNCHANGED <<dealer, num_suits, num_ranks, trick, error>>

\* Deck.trick(top_cards): the cards are left as they lie
DeckTrick(top_cards) ==
    /\ _top_idcs' = top_idcs_of(top_cards)
    /\ _bottom_idcs' = bottom_idcs_of(top_cards)
    /\ _tricked' = TRUE
    /\ last' = DeckCall("trick", 0, <<>>, last.returned)
    /\ UNCHANGED <<dealer, num_suits, num_ranks, deck, error>>

\* Deck.untrick()
DeckUntrick ==
    /\ _tricked' = FALSE
    /\ _top_idcs' = <<>>
    /\ _bottom_idcs' = <<>>
    /\ last' = DeckCall("untrick", 0, <<>>, last.returned)
    /\ UNCHANGED <<dealer, num_suits, num_ranks, deck, error>>

\* the lists of distinct cards of the deck, the empty list and the whole
\* deck among them
TopCardLists ==
    UNION {Orders(Listed(S)) : S \in SUBSET {full_deck[i] :
                                                i \in 1..Len(full_deck)}}

DoDeckDraw == \E n \in 0..MaxDraw : DeckDraw(n)

DoDeckTrick == \E top_cards \in TopCardLists : DeckTrick(top_cards)

\* test_draw (test_card.py 8-22): Deck(2, 3), drawn from and shuffled
DrawInit == DeckAlone(2, 3)

DrawNext ==
    \/ DoDeckDraw
    \/ DeckShuffle

DrawSpec == DrawInit /\ [][DrawNext]_vars

\* a deck of three cards that is tricked, shuffled, drawn from and untricked
\* as in test_trick (test_card.py 25-43)
TrickInit == DeckAlone(1, 3)

TrickNext ==
    \/ DoDeckDraw
    \/ DeckShuffle
    \/ DoDeckTrick
    \/ DeckUntrick

TrickSpec == TrickInit /\ [][TrickNext]_vars

-----------------------------------------------------------------------------
(* An Evaluator on its own (evaluator.py 36-59, 324-343): hands of          *)
(* cards_for_hand cards of the deck are looked up in its table.  The Dealer *)
(* fields are not there and stay as they are.                               *)

\* the evaluators built, as <<suits, ranks, cards_for_hand,
\* low_end_straight>>: the one of KUHN_TWO_PLAYER, the one of
\* LEDUC_TWO_PLAYER, and decks of three-card and four-card hands with as
\* many ranks as a hand has cards, or more
TableRules ==
    {<<2, 2, 1, TRUE>>, <<2, 3, 2, TRUE>>, <<2, 3, 3, FALSE>>,
     <<2, 3, 3, TRUE>>, <<2, 4, 3, TRUE>>, <<3, 4, 3, TRUE>>,
     <<2, 5, 4, TRUE>>}

\* the hands of cards_for_hand cards of a deck, as the sets of their
\* positions in the deck
HandsOf(suits, ranks, cards_for_hand) ==
    Combinations(suits * ranks, cards_for_hand)

\* two hands to look up, and what table.lookup returned for them
Looked(op, low_end_straight, a, b, rank_a, rank_b) ==
    [op |-> op, low_end_straight |-> low_end_straight, a |-> a, b |-> b,
     rank_a |-> rank_a, rank_b |-> rank_b]

\* Evaluator(suits, ranks, cards_for_hand, 0, low_end_straight)
EvaluatorAlone(suits, ranks, cards_for_hand, low_end_straight) ==
    /\ num_suits = suits
    /\ num_ranks = ranks
    /\ num_cards_for_hand = cards_for_hand
    /\ mandatory_num_hole_cards = 0
    /\ evaluator = Evaluator(suits, ranks, cards_for_hand, 0,
                             low_end_straight)
    /\ error = evaluator.table.raised
    /\ _tricked = FALSE /\ _top_idcs = <<>> /\ _bottom_idcs = <<>>
    /\ deck = <<>>
    /\ num_players = 0 /\ num_streets = 0 /\ blinds = <<>> /\ antes = <<>>
    /\ big_blind = 0 /\ raise_sizes = <<>> /\ num_raises = <<>>
    /\ num_hole_cards = 0 /\ num_community_cards = <<>>
    /\ start_stack = 0
    /\ action = -1 /\ active = <<>> /\ button = 0 /\ community_cards = <<>>
    /\ history = <<>> /\ hole_cards = <<>> /\ largest_raise = 0 /\ pot = 0
    /\ pot_commits = <<>> /\ stacks = <<>> /\ street = 0
    /\ street_commits = <<>> /\ street_option = <<>> /\ street_raises = 0
    /\ payouts = <<>> /\ done = <<>> /\ carried = 0

\* table.lookup of the two hands, on an evaluator that was built
TableLookup ==
    /\ error = "none"
    /\ last.op = "init"
    /\ last' = Looked("lookup", last.low_end_straight, last.a, last.b,
                      lookup(last.a), lookup(last.b))
    /\ UNCHANGED <<config, table, trick, payouts, done, error, carried>>

\* an evaluator and every two hands of its deck, in one order
TableInit ==
    \E r \in TableRules :
        /\ EvaluatorAlone(r[1], r[2], r[3], r[4])
        /\ \E S \in HandsOf(r[1], r[2], r[3]) :
            \E T \in {U \in HandsOf(r[1], r[2], r[3]) :
                        bits_value(S) <= bits_value(U)} :
                last = Looked("init", r[4], Pick(full_deck, S),
                              Pick(full_deck, T), 0, 0)

TableNext == TableLookup

TableSpec == TableInit /\ [][TableNext]_vars

-----------------------------------------------------------------------------
(* Dealer.__init__ on its arguments (engine.py 116-228), as test_init       *)
(* (test_misc.py 78-136) calls it.  An argument is an int, a str, a float   *)
(* or a list of these.                                                      *)

IntArg(n) == [type |-> "int", n |-> n, text |-> "", items |-> <<>>]
StrArg(text) == [type |-> "str", n |-> 0, text |-> text, items |-> <<>>]
FloatArg(text) == [type |-> "float", n |-> 0, text |-> text, items |-> <<>>]
ListArg(items) == [type |-> "list", n |-> 0, text |-> "", items |-> items]
IntList(ns) == ListArg(Table([i \in 1..Len(ns) |-> IntArg(ns[i])]))

\* check_inp that takes a list of any length: one of the wrong length
\* stands for its first element
check_inp_any_length(var, expect_num) ==
    [raised |-> FALSE,
     list |-> Table([i \in 1..expect_num |->
                IF var.type = "list"
                THEN var.items[IF Len(var.items) = expect_num THEN i ELSE 1]
                ELSE var])]

\* check_inp (engine.py 136-143): a list of the wrong length raises
\* InvalidConfigError, what is no list is repeated expect_num times
check_inp(var, expect_num) ==
    IF var.type = "list"
    THEN [raised |-> Len(var.items) # expect_num, list |-> var.items]
    ELSE [raised |-> FALSE, list |-> Table([i \in 1..expect_num |-> var])]

\* clean_rs (engine.py 168-180) raises InvalidRaiseSizeError
raises_clean_rs(raise_size) ==
    ~ \/ raise_size.type = "str" /\ raise_size.text \in {"inf", "pot"}
      \/ raise_size.type = "int"

\* clean_rs (engine.py 168-180): float("inf"), "pot" or the int
clean_rs(raise_size) ==
    IF raise_size.type = "str" /\ raise_size.text = "inf" THEN NoLimit
    ELSE IF raise_size.type = "str" /\ raise_size.text = "pot" THEN PotLimit
    ELSE Fixed(raise_size.n)

\* float(raise_num) (engine.py 190) raises ValueError
raises_float(raise_num) ==
    ~ \/ raise_num.type \in {"int", "float"}
      \/ raise_num.type = "str" /\ raise_num.text = "inf"

\* float(raise_num) (engine.py 190)
float(raise_num) == IF raise_num.type = "int" THEN Cap(raise_num.n) ELSE NoCap

\* the arguments of test_init, scaled down: two or three players, one or two
\* streets, and for every argument that check_inp takes a scalar, a list of
\* one, of two and of three
NumPlayersArgs == {2, 3}
NumStreetsArgs == {1, 2}
BlindsArgs == {IntArg(0), IntList(<<0>>), IntList(<<1, 2>>), IntList(<<1, 2, 0>>)}
AntesArgs == {IntArg(1), IntList(<<0>>), IntList(<<0, 0>>), IntList(<<0, 0, 1>>)}
RaiseSizesArgs ==
    {IntArg(2), StrArg("pot"), StrArg("inf"), StrArg("lala"),
     FloatArg("inf"), IntList(<<0>>),
     ListArg(<<IntArg(2), StrArg("pot")>>),
     ListArg(<<StrArg("inf"), StrArg("lala")>>),
     ListArg(<<IntArg(2), FloatArg("inf")>>)}
NumRaisesArgs == {IntArg(2), StrArg("inf"), IntList(<<0>>), IntList(<<1, 2>>)}
NumCommunityCardsArgs == {IntArg(0), IntList(<<0>>), IntList(<<0, 1>>)}

\* the arguments of a call of Dealer.__init__
InitCall(op, n, ns, bl, an, rs, nr, ncc) ==
    [op |-> op, num_players |-> n, num_streets |-> ns, blinds |-> bl,
     antes |-> an, raise_sizes |-> rs, num_raises |-> nr,
     num_community_cards |-> ncc]

\* before the call: the arguments are chosen, the ints that __init__ only
\* stores are those of KUHN_TWO_PLAYER, and there is no dealer yet
NoDealer ==
    /\ last \in {InitCall("args", n, ns, bl, an, rs, nr, ncc) :
            n \in NumPlayersArgs, ns \in NumStreetsArgs, bl \in BlindsArgs,
            an \in AntesArgs, rs \in RaiseSizesArgs, nr \in NumRaisesArgs,
            ncc \in NumCommunityCardsArgs}
    /\ num_suits = 2 /\ num_ranks = 2 /\ num_hole_cards = 1
    /\ num_cards_for_hand = 1 /\ mandatory_num_hole_cards = 0
    /\ start_stack = 2
    /\ evaluator = <<>>
    /\ error = "none"
    /\ _tricked = FALSE /\ _top_idcs = <<>> /\ _bottom_idcs = <<>>
    /\ deck = <<>>
    /\ num_players = 0 /\ num_streets = 0 /\ blinds = <<>> /\ antes = <<>>
    /\ big_blind = 0 /\ raise_sizes = <<>> /\ num_raises = <<>>
    /\ num_community_cards = <<>>
    /\ action = -1 /\ active = <<>> /\ button = 0 /\ community_cards = <<>>
    /\ history = <<>> /\ hole_cards = <<>> /\ largest_raise = 0 /\ pot = 0
    /\ pot_commits = <<>> /\ stacks = <<>> /\ street = 0
    /\ street_commits = <<>> /\ street_option = <<>> /\ street_raises = 0
    /\ payouts = <<>> /\ done = <<>> /\ carried = 0

\* the exception Dealer.__init__ raises, "none" if it raises none, given
\* what check_inp gave for the five arguments
init_raises(bl, an, rs, nr, ncc) ==
    IF bl.raised \/ an.raised \/ rs.raised \/ nr.raised \/ ncc.raised
    THEN "InvalidConfigError"
    ELSE IF \E i \in 1..Len(rs.list) : raises_clean_rs(rs.list[i])
    THEN "InvalidRaiseSizeError"
    ELSE IF \E i \in 1..Len(nr.list) : raises_float(nr.list[i])
    THEN "ValueError"
    ELSE "none"

\* Dealer.__init__, lines 183-221, given what check_inp gave
DealerInitWith(n, ns, bl, an, rs, nr, ncc) ==
    /\ last' = [last EXCEPT !.op = "init"]
    /\ error' = init_raises(bl, an, rs, nr, ncc)
    /\ IF init_raises(bl, an, rs, nr, ncc) # "none"
       THEN UNCHANGED <<config, table, trick, payouts, done, carried>>
       ELSE /\ num_players' = n
            /\ num_streets' = ns
            /\ blinds' = List(Table([i \in 1..n |-> bl.list[i].n]))
            /\ antes' = List(Table([i \in 1..n |-> an.list[i].n]))
            /\ big_blind' = bl.list[2].n
            /\ raise_sizes' =
                List(Table([i \in 1..ns |-> clean_rs(rs.list[i])]))
            /\ num_raises' =
                List(Table([i \in 1..ns |-> float(nr.list[i])]))
            /\ num_community_cards' =
                List(Table([i \in 1..ns |-> ncc.list[i].n]))
            /\ evaluator' = Evaluator(num_suits, num_ranks,
                                      num_cards_for_hand,
                                      mandatory_num_hole_cards, TRUE)
            /\ action' = -1
            /\ active' = Expand(FALSE, n)
            /\ button' = 0
            /\ community_cards' = <<>>
            /\ deck' \in Orders(full_deck)
            /\ history' = <<>>
            /\ hole_cards' = <<>>
            /\ largest_raise' = 0
            /\ pot' = 0
            /\ pot_commits' = Expand(0, n)
            /\ stacks' = Expand(start_stack, n)
            /\ street' = 0
            /\ street_commits' = Expand(0, n)
            /\ street_option' = Expand(FALSE, n)
            /\ street_raises' = 0
            /\ payouts' = Expand(0, n)
            /\ done' = Expand(FALSE, n)
            /\ UNCHANGED <<num_suits, num_ranks, num_hole_cards,
                           num_cards_for_hand, mandatory_num_hole_cards,
                           start_stack, trick, carried>>

\* Dealer.__init__ on the arguments chosen
DealerInit ==
    /\ last.op = "args"
    /\ DealerInitWith(last.num_players, last.num_streets,
            check_inp(last.blinds, last.num_players),
            check_inp(last.antes, last.num_players),
            check_inp(last.raise_sizes, last.num_streets),
            check_inp(last.num_raises, last.num_streets),
            check_inp(last.num_community_cards, last.num_streets))

InitNext == DealerInit

InitSpec == NoDealer /\ [][InitNext]_vars

-----------------------------------------------------------------------------
(* Claims C1 - C10 *)

\* the last call was a step that placed a bet for a seat
BetPlaced == last.op = "step" /\ last.seat # -1

\* the last call was a step that placed a bet and returned
BetReturned == BetPlaced /\ error = "none"

\* C1: in every state from the end of reset until the hand is settled, after
\* any sequence of step calls, pot equals the sum of pot_commits over all
\* seats
C1_PotIsSumOfPotCommits ==
    action # -1 => pot = SumSeats(pot_commits)

\* a hand in progress in which forced bets were posted and a bet collected
C1_Witness ==
    /\ action # -1
    /\ BetReturned /\ last.collected > 0
    /\ pot > last.collected
    /\ pot = SumSeats(pot_commits)

\* C2: whenever a step ends a hand (all done flags true), by folds or by
\* showdown, the payouts it returns sum to 0 over all seats
C2_PayoutsSumToZero ==
    (BetReturned /\ \A s \in Seats : done[s]) => SumSeats(payouts) = 0

\* C3: stacks[i] >= 0 for every seat in every reachable state
C3_StacksNonNegative ==
    \A s \in Seats : stacks[s] >= 0

\* C4, as the specification states it: after reset(reset_stacks=true) and any
\* sequence of step calls, before settlement, the pot commits plus the stacks
\* sum to N * start_stack + sum(antes) + sum(blinds)
C4_ChipsPlusForcedBets ==
    (carried = 0 /\ action # -1) =>
        SumSeats(pot_commits) + SumSeats(stacks)
            = num_players * start_stack + SumSeats(antes) + SumSeats(blinds)

\* C4, amended: after reset(reset_stacks=true) and any sequence of step
\* calls, before settlement, the pot commits plus the stacks sum to
\* N * start_stack: the antes and blinds are paid out of the stacks
C4_ChipsConserved ==
    (carried = 0 /\ action # -1) =>
        SumSeats(pot_commits) + SumSeats(stacks) = num_players * start_stack

\* a hand started with fresh stacks, forced bets posted, a bet collected
C4_Witness ==
    /\ carried = 0 /\ action # -1
    /\ SumSeats(antes) + SumSeats(blinds) > 0
    /\ BetReturned /\ last.collected > 0
    /\ SumSeats(pot_commits) + SumSeats(stacks) = num_players * start_stack

\* C5: step makes the acting seat inactive if and only if call > 0 and (the
\* submitted bet is negative or the cleaned bet is below call); with call = 0
\* no bet folds the seat; a fold and a check move no chips
C5_FoldRule ==
    BetPlaced =>
        /\ last.active[last.seat]
        /\ ~active[last.seat]
            <=> (last.call > 0 /\ (last.fold \/ last.clean < last.call))
        /\ last.call = 0 => active[last.seat]
        /\ ~active[last.seat] => last.collected = 0
        /\ (last.call = 0 /\ last.clean = 0) => last.collected = 0

\* the bet sizes a seat may place given what _bet_sizes returns
ValidSizes(sizes) == {0, sizes.call} \cup (sizes.min_raise..sizes.max_raise)

\* what step accepts for the bet of b chips on the table st
Accepted(st, b) ==
    _clean_bet(b, _bet_sizes(st).call, _bet_sizes(st).min_raise,
               _bet_sizes(st).max_raise)

\* C6, for whole numbers of chips: the bet that step accepts is the valid
\* bet size nearest to the submitted bet, the smaller size on a tie; a
\* submitted bet in [min_raise, max_raise] is accepted unchanged
C6_NearestValidSize ==
    (action # -1 /\ street < num_streets) =>
        \A b \in 0..(MaxBet2 \div 2) :
            /\ Accepted(self, b) \in ValidSizes(_bet_sizes(self))
            /\ \A v \in ValidSizes(_bet_sizes(self)) :
                \/ Abs(Accepted(self, b) - b) < Abs(v - b)
                \/ Abs(Accepted(self, b) - b) = Abs(v - b)
                    /\ Accepted(self, b) <= v
            /\ (_bet_sizes(self).min_raise <= b /\ b <= _bet_sizes(self).max_raise)
                => Accepted(self, b) = b

\* C7: the step that makes every seat agree advances the street, so in no
\* state where the hand is still in progress does _all_agreed() hold
C7_NeverAgreedInProgress ==
    action # -1 => ~_all_agreed(self)

\* a step closed the betting of a street and the hand went on to the next
C7_Witness ==
    /\ BetReturned
    /\ action # -1 /\ street > 0 /\ street < num_streets
    /\ history # <<>>
    /\ \A s \in Seats : street_commits[s] = 0
    /\ ~_all_agreed(self)

\* C8: street_raises <= num_raises[street] in every reachable state
C8_RaisesCapped ==
    street < num_streets =>
        (num_raises[street].inf \/ street_raises <= num_raises[street].n)

\* C9: when a fold leaves exactly one active seat, that step ends the hand
\* (all done, action = -1, pot = 0); the remaining seat is paid the pot less
\* its pot commit, every other seat minus its pot commit, and the remaining
\* seat's stack is its stack before plus the whole pot
C9_LastSeatTakesPot ==
    (BetPlaced /\ ~active[last.seat] /\ CountTrue(active) = 1) =>
        /\ error = "none"
        /\ \A s \in Seats : done[s]
        /\ action = -1
        /\ pot = 0
        /\ \A s \in Seats :
            payouts[s] = IF active[s] THEN last.paid - pot_commits[s]
                         ELSE -1 * pot_commits[s]
        /\ \A s \in Seats : active[s] => stacks[s] = last.stacks[s] + last.paid

\* a fold has left one active seat, which took a pot holding other seats'
\* chips
C9_Witness ==
    /\ BetReturned /\ ~active[last.seat] /\ CountTrue(active) = 1
    /\ action = -1
    /\ \E s \in Seats : active[s] /\ payouts[s] > 0
                        /\ stacks[s] = last.stacks[s] + last.paid

\* C10: in every payouts vector returned by step, mid-hand and at showdown,
\* each folded (inactive) seat's payout is exactly minus its pot commit
C10_FoldedSeatsLoseCommit ==
    BetReturned =>
        \A s \in Seats : ~active[s] => payouts[s] = -1 * pot_commits[s]

-----------------------------------------------------------------------------
(* Claims C11 - C20 *)

\* the last call was a step that took the hand to a showdown: the streets
\* are played and more than one seat is still active
AtShowdown ==
    BetPlaced /\ street >= num_streets /\ CountTrue(active) > 1

\* the split pots of the showdown the last step came to, before the
\* remainder is given out; the pot is the one the payouts were computed for
Showdown ==
    split_pots(1, [hands |-> sorted_hands(_eval_hands(self), pot_commits),
                   pot |-> last.paid,
                   remainder |-> 0,
                   payouts |-> Zeros])

\* the first seat clockwise from the button (button+1, button+2, ...) that
\* won at least one chip
FirstWinner(won) ==
    CHOOSE s \in Seats :
        \E i \in 1..num_players :
            /\ s = (button + i) % num_players
            /\ won[s] > 0
            /\ \A j \in 1..(i - 1) : won[(button + j) % num_players] = 0

\* C11: at showdown, when a split pot leaves a remainder, the whole remainder
\* is added to the payout of the first seat clockwise from the button that
\* won at least one chip, and settlement completes without error
C11_RemainderToFirstWinner ==
    (AtShowdown /\ Showdown.remainder > 0) =>
        /\ error = "none"
        /\ \A s \in Seats :
            payouts[s] + pot_commits[s]
                = Showdown.payouts[s]
                  + IF s = FirstWinner(Showdown.payouts)
                    THEN Showdown.remainder ELSE 0

\* the seat s is active and holds a strictly better hand than every other
\* active seat (a lower hand rank is a better hand), and no seat has a larger
\* pot commit
BestAndDeepest(s) ==
    /\ active[s]
    /\ \A q \in Seats \ {s} :
        /\ active[q] => _eval_hands(self)[s] < _eval_hands(self)[q]
        /\ pot_commits[q] <= pot_commits[s]

\* the hand of test_game (test_misc.py 9-36): LEDUC_TWO_PLAYER after
\* reset(reset_button=True, reset_stacks=True), seat 0 holding the queen of
\* spades, seat 1 the king of spades, the queen of hearts next to come
InTestGame ==
    /\ num_ranks = 3 /\ num_cards_for_hand = 2
    /\ carried = 0 /\ button = 0
    /\ hole_cards # <<>>
    /\ hole_cards[0] = <<Card(Queen, Spades)>>
    /\ hole_cards[1] = <<Card(King, Spades)>>
    /\ \/ community_cards = <<Card(Queen, Hearts)>>
       \/ community_cards = <<>> /\ Head(deck) = Card(Queen, Hearts)

\* the bets of test_game: raise 2, raise 4, call 2, check, bet 2, call 2
TestGameBets == <<2, 4, 2, 0, 2, 2>>

\* the last call was the k-th step of test_game
TestGameStep(k) ==
    /\ InTestGame /\ BetReturned
    /\ Len(history) = k
    /\ \A i \in 1..k : history[i][2] = TestGameBets[i] /\ ~history[i][3]

\* C12: at showdown, a seat that holds a strictly better hand than every
\* other active seat, and has the largest pot commit, is paid the sum of
\* all other seats' pot commits, and every other seat is paid minus its pot
\* commit; the hand of test_game ends exactly at the sixth step, with both
\* seats done and the better hand (seat 0, a pair of queens) netting +7
C12_BestHandTakesAll ==
    /\ (AtShowdown /\ error = "none") =>
        \A s \in Seats : BestAndDeepest(s) =>
            /\ payouts[s] = SumSeats(pot_commits) - pot_commits[s]
            /\ \A q \in Seats \ {s} : payouts[q] = -1 * pot_commits[q]
    /\ \A k \in 1..5 : TestGameStep(k) => \E s \in Seats : ~done[s]
    /\ TestGameStep(6) =>
        /\ \A s \in Seats : done[s]
        /\ payouts[0] = 7 /\ payouts[1] = -7

\* the sixth step of test_game has been taken and seat 0 has won the
\* showdown
C12_Witness ==
    /\ TestGameStep(6)
    /\ AtShowdown /\ BestAndDeepest(0)
    /\ payouts[0] = 7

\* a heads-up no-limit table whose first street has no cap on the raises
HeadsUpNoLimit ==
    num_players = 2 /\ raise_sizes[0] = NoLimit /\ num_raises[0] = NoCap

\* reset has just returned on a heads-up no-limit table, both seats active
HeadsUpAfterReset ==
    /\ HeadsUpNoLimit
    /\ last.op = "reset" /\ error = "none"
    /\ \A s \in Seats : active[s]

\* on a heads-up no-limit table the button has just called (or checked) as
\* the first bet of the hand, and the hand goes on
HeadsUpAfterCall ==
    /\ HeadsUpNoLimit
    /\ BetReturned /\ Len(history) = 1
    /\ last.seat = button /\ ~last.fold /\ last.bet = last.call
    /\ action # -1 /\ street = 0

\* what the button has to call after the blinds
BlindCall == blinds[1] - blinds[0]

AllActive == \A s \in Seats : active[s]

\* reset has just dealt a hand to more than two seats, all of them active
RingAfterReset ==
    num_players > 2 /\ last.op = "reset" /\ error = "none" /\ AllActive

\* the seat n places after the button
FromButton(n) == (button + n) % num_players

\* the hand dealt: with more than two players, all active, the first
\* two blind entries are posted by seats button+1 and button+2 and the first
\* action is on seat (button+3) mod N
C14_BlindsAndFirstActor ==
    RingAfterReset =>
        /\ street_commits[FromButton(1)] = blinds[0]
        /\ street_commits[FromButton(2)] = blinds[1]
        /\ action = FromButton(3)

\* reset(reset_button=False, ...) deals a hand
ResetKeepsButton ==
    /\ \E reset_stacks \in BOOLEAN : Reset(FALSE, reset_stacks)
    /\ error' = "none"

\* from hand to hand: a reset that does not reset the button, issued
\* after a completed hand, advances the button by exactly one seat mod N;
\* with more than two players and every seat active in the old hand as in
\* the new one, the first actor advances by one seat as well (three seats
\* after the old button, then four)
C14_ButtonAdvances ==
    [][ResetKeepsButton =>
        /\ button' = (button + 1) % num_players
        /\ (num_players > 2 /\ AllActive') => action' = FromButton(4)]_vars

DealtToAll == last.op = "reset" /\ error = "none" /\ AllActive

\* C15: reset posts antes[i] and blinds[i] from the seat i positions left of
\* the button, seat (button + i) mod N, for every number of players N >= 2
\* when all seats are active
C15_PostedFromButton ==
    DealtToAll =>
        \A i \in Seats :
            /\ street_commits[FromButton(i)] = blinds[i]
            /\ pot_commits[FromButton(i)] = antes[i] + blinds[i]

\* the seat the forced bets are rolled onto (engine.py 304-307): the button
\* heads-up, the seat after it otherwise
FirstToPost == IF num_players > 2 THEN FromButton(1) ELSE button

\* the entry of a forced-bet list that falls on seat s (engine.py 595)
EntryOf(bets, s) == bets[(s - FirstToPost) % num_players]

\* reset(reset_stacks=True) has just dealt a hand
DealtFromStartStacks == last.op = "reset" /\ error = "none" /\ carried = 0

\* no seat's forced bets exceed the start stack
ForcedBetsCovered == \A i \in Seats : antes[i] + blinds[i] <= start_stack

\* C16: after reset(reset_stacks=true) with start_stack at least every seat's
\* ante plus blind, each seat's street_commits is the blind it posted, its
\* pot_commits its ante plus its blind, its stack start_stack minus both, and
\* pot = sum(antes) + sum(blinds); the call offered is what it would be
\* without antes, the largest blind minus the actor's blind
C16_AntesOnlyInPot ==
    (DealtFromStartStacks /\ ForcedBetsCovered) =>
        /\ \A s \in Seats :
            /\ street_commits[s] = EntryOf(blinds, s)
            /\ pot_commits[s] = EntryOf(antes, s) + EntryOf(blinds, s)
            /\ stacks[s] = start_stack - EntryOf(antes, s) - EntryOf(blinds, s)
        /\ pot = SumSeats(antes) + SumSeats(blinds)
        /\ call_for(self) = MaxSeats(blinds) - EntryOf(blinds, action)

\* a hand dealt from start stacks of 4 with an ante of 1 from both seats and
\* blinds 1-2: the pot holds 5, the street commits are the blinds alone and
\* the button is asked to call 1
C16_Witness ==
    /\ DealtFromStartStacks /\ ForcedBetsCovered
    /\ num_players = 2 /\ button = 0
    /\ antes[0] = 1 /\ antes[1] = 1 /\ blinds[0] = 1 /\ blinds[1] = 2
    /\ pot = 5
    /\ street_commits[0] = 1 /\ street_commits[1] = 2
    /\ pot_commits[0] = 2 /\ pot_commits[1] = 3
    /\ stacks[0] = 2 /\ stacks[1] = 1
    /\ _bet_sizes(self).call = 1

\* the dealer is as Dealer.__init__ left it: no reset has dealt a hand
NeverReset == hole_cards = <<>> /\ last.op \in {"init", "step"}

\* C17: step called on a dealer that has never been reset raises
\* TableResetError and leaves every dealer field unchanged
C17_StepBeforeReset ==
    [][(NeverReset /\ last'.op = "step") =>
        /\ error' = "TableResetError"
        /\ UNCHANGED <<config, table, trick>>]_vars

\* step has been refused on a dealer that was never reset
C17_Witness ==
    NeverReset /\ last.op = "step" /\ error = "TableResetError"

\* reset(reset_stacks=False) is called
ResetKeepsStacks == \E reset_button \in BOOLEAN : Reset(reset_button, FALSE)

\* the seats that have chips
WithChips == {s \in Seats : stacks[s] > 0}

\* C18: reset(reset_stacks=false) raises TooFewActivePlayers exactly when at
\* most one seat has stack > 0, and otherwise starts a hand in which a seat
\* is active iff its stack was > 0
C18_TooFewActivePlayers ==
    [][ResetKeepsStacks =>
        /\ error' = "TooFewActivePlayersError" <=> Cardinality(WithChips) <= 1
        /\ Cardinality(WithChips) > 1 =>
            /\ error' = "none" /\ action' \in Seats
            /\ \A s \in Seats : active'[s] <=> s \in WithChips]_vars

\* a heads-up hand has left one seat without chips and the reset that keeps
\* the stacks has been refused
C18_Witness ==
    /\ num_players = 2
    /\ last.op = "reset" /\ error = "TooFewActivePlayersError"
    /\ Cardinality(WithChips) = 1
    /\ \E s \in Seats : stacks[s] = 0

\* a call of Deck.draw returns
DrawReturns == last'.op = "draw"

\* C19: Deck.draw(n), n a number of cards, removes and returns exactly
\* min(n, cards remaining) cards from the top of the deck in order and never
\* fails; the cards returned by any sequence of draws never exceed the deck
C19_DrawUpToWhatIsLeft ==
    /\ [][DrawReturns =>
            /\ Len(last'.drawn) = Min2(last'.n, Len(deck))
            /\ last'.drawn = SubSeq(deck, 1, Len(last'.drawn))
            /\ deck' = SubSeq(deck, Len(last'.drawn) + 1, Len(deck))
            /\ error' = "none"]_vars
    /\ [](last.returned <= Len(full_deck))

\* test_draw: the six cards of Deck(2, 3) have been handed out and a draw of
\* one card has returned none
C19_Witness ==
    /\ Len(full_deck) = 6
    /\ last.op = "draw" /\ last.n = 1 /\ last.drawn = <<>>
    /\ last.returned = 6 /\ deck = <<>>

\* a call of Deck.shuffle returns
ShuffleReturns == last'.op = "shuffle"

\* the cards named to the trick in force, none when there is no trick
TrickedCards == IF _tricked THEN CardsAt(_top_idcs) ELSE <<>>

\* C20: after any sequence of draws, shuffle restores the deck to a
\* permutation of the full deck; after trick(P) for any list P of distinct
\* deck cards, the whole deck included, every later shuffle until untrick
\* puts exactly P, in order, at positions 0..|P|-1
C20_ShufflePutsTrickOnTop ==
    [][ShuffleReturns =>
        /\ deck' \in Orders(full_deck)
        /\ SubSeq(deck', 1, Len(TrickedCards)) = TrickedCards]_vars

-----------------------------------------------------------------------------
(* Claims C21 - C30 *)

\* the evaluator has been built
TableBuilt == evaluator # <<>> /\ evaluator.table.raised = "none"

\* the number of keys of a lookup dict whose value is rank
KeysWith(dict, rank) == Cardinality({p \in DOMAIN dict : dict[p] = rank})

\* the number of keys across suited_lookup and unsuited_lookup whose value
\* is rank; the two are one dict when no flush is counted
KeysOfRank(rank) ==
    IF evaluator.table.hand_dict["flush"].cumulative_unsuited = 0
    THEN KeysWith(unsuited_lookup, rank)
    ELSE KeysWith(suited_lookup, rank) + KeysWith(unsuited_lookup, rank)

\* the number of keys across suited_lookup and unsuited_lookup
NumberOfKeys ==
    IF evaluator.table.hand_dict["flush"].cumulative_unsuited = 0
    THEN Cardinality(DOMAIN unsuited_lookup)
    ELSE Cardinality(DOMAIN suited_lookup)
            + Cardinality(DOMAIN unsuited_lookup)

\* the sum of the unsuited counts of the nine categories
UnsuitedHands ==
    SumSeq(Table([i \in 1..9 |-> evaluator.table.hand_dict[HANDS[i]].unsuited]))

\* C21: in every lookup table that was built, every integer rank in
\* 0..max_rank is the value of exactly one key across suited_lookup and
\* unsuited_lookup, and the number of keys is the sum of the unsuited
\* category counts.
C21_EveryRankHasOneKey ==
    TableBuilt =>
        /\ \A rank \in 0..max_rank : KeysOfRank(rank) = 1
        /\ NumberOfKeys = UnsuitedHands

\* what the tables do give: no rank has two keys, every key has a rank in
\* 0..max_rank, and the one rank of 0..max_rank without a key is the
\* cumulative count of the best category, because _get_rank starts the best
\* category at 0 and every other at the count before it plus one
RankWithoutKey ==
    evaluator.table.hand_dict[evaluator.table.ranked_hands[1]]
        .cumulative_unsuited

C21_OneRankHasNoKey ==
    TableBuilt /\ evaluator.ranks > evaluator.cards_for_hand =>
        /\ \A rank \in 0..max_rank :
            KeysOfRank(rank) = IF rank = RankWithoutKey THEN 0 ELSE 1
        /\ NumberOfKeys = UnsuitedHands
        /\ NumberOfKeys = max_rank

\* the card ranks of a hand, and how often a rank occurs in it
RanksIn(cards) == {CardRank(cards[i]) : i \in 1..Len(cards)}
TimesIn(cards, rank) ==
    Cardinality({i \in 1..Len(cards) : CardRank(cards[i]) = rank})
RanksTimes(cards, n) == {rank \in RanksIn(cards) : TimesIn(cards, rank) = n}

\* the hand is the ace with the lowest ranks in play
IsWheel(cards, low_end_straight) ==
    /\ low_end_straight
    /\ RanksIn(cards) =
        {12} \cup ((13 - num_ranks)..(13 - num_ranks + Len(cards) - 2))

\* a straight is as many successive ranks as the hand has cards, or the ace
\* with the lowest ranks in play; a flush is one suit; both take three
\* cards at least
IsStraight(cards, low_end_straight) ==
    /\ Len(cards) >= 3
    /\ Cardinality(RanksIn(cards)) = Len(cards)
    /\ \/ \E top \in RanksIn(cards) :
            RanksIn(cards) = (top - Len(cards) + 1)..top
       \/ IsWheel(cards, low_end_straight)

IsFlush(cards) ==
    /\ Len(cards) >= 3
    /\ \A i \in 1..Len(cards) : CardSuit(cards[i]) = CardSuit(cards[1])

\* the category of a hand
CategoryOf(cards, low_end_straight) ==
    IF RanksTimes(cards, 4) # {} THEN "four of a kind"
    ELSE IF RanksTimes(cards, 3) # {} /\ RanksTimes(cards, 2) # {}
    THEN "full house"
    ELSE IF RanksTimes(cards, 3) # {} THEN "three of a kind"
    ELSE IF Cardinality(RanksTimes(cards, 2)) = 2 THEN "two pair"
    ELSE IF RanksTimes(cards, 2) # {} THEN "pair"
    ELSE IF IsStraight(cards, low_end_straight) /\ IsFlush(cards)
    THEN "straight flush"
    ELSE IF IsFlush(cards) THEN "flush"
    ELSE IF IsStraight(cards, low_end_straight) THEN "straight"
    ELSE "high card"

\* the ranks of a hand, those that occur most often first and then high to
\* low; in a straight the top card alone counts, and the ace of the ace-low
\* straight counts below every rank
TieBreakers(cards, low_end_straight) ==
    IF IsStraight(cards, low_end_straight)
    THEN IF \E top \in RanksIn(cards) :
                RanksIn(cards) = (top - Len(cards) + 1)..top
         THEN <<CHOOSE top \in RanksIn(cards) :
                    RanksIn(cards) = (top - Len(cards) + 1)..top>>
         ELSE <<-1>>
    ELSE Table([i \in 1..Cardinality(RanksIn(cards)) |->
            CHOOSE rank \in RanksIn(cards) :
                Cardinality({other \in RanksIn(cards) :
                    \/ TimesIn(cards, other) > TimesIn(cards, rank)
                    \/ /\ TimesIn(cards, other) = TimesIn(cards, rank)
                       /\ other > rank}) = i - 1])

\* a list of tie breakers as one number that orders the lists of a category
RECURSIVE Weighed(_)
Weighed(list) ==
    IF list = <<>> THEN 0
    ELSE (Head(list) + 1) * 14 ^ (Len(list) - 1) + Weighed(Tail(list))

\* the place of the category of a hand in the order in force
PlaceOf(cards, low_end_straight) ==
    IndexIn(evaluator.table.ranked_hands,
            CategoryOf(cards, low_end_straight))

\* hand a is strictly stronger than hand b; the two are equally strong
Stronger(a, b, low_end_straight) ==
    \/ PlaceOf(a, low_end_straight) < PlaceOf(b, low_end_straight)
    \/ /\ PlaceOf(a, low_end_straight) = PlaceOf(b, low_end_straight)
       /\ Weighed(TieBreakers(a, low_end_straight))
            > Weighed(TieBreakers(b, low_end_straight))

EquallyStrong(a, b, low_end_straight) ==
    /\ PlaceOf(a, low_end_straight) = PlaceOf(b, low_end_straight)
    /\ TieBreakers(a, low_end_straight) = TieBreakers(b, low_end_straight)

\* two hands have been looked up
LookedUp == last.op = "lookup"

\* C22: of two hands of cards_for_hand cards of the deck, the looked-up rank
\* of one is less than that of the other iff it is strictly stronger under
\* the category order in force (category first, then multiples and kickers
\* high to low, the ace-low straight the weakest straight), and the ranks
\* are equal iff the hands are equally strong.
C22_RankOrderIsStrengthOrder ==
    LookedUp =>
        /\ last.rank_a < last.rank_b
            <=> Stronger(last.a, last.b, last.low_end_straight)
        /\ last.rank_b < last.rank_a
            <=> Stronger(last.b, last.a, last.low_end_straight)
        /\ last.rank_a = last.rank_b
            <=> EquallyStrong(last.a, last.b, last.low_end_straight)

\* the same where the deck has more ranks than a hand has cards: there the
\* rank order is the strength order
C22_RankOrderWithMoreRanks ==
    LookedUp /\ num_ranks > num_cards_for_hand =>
        C22_RankOrderIsStrengthOrder

\* Dealer.__init__ has been called
Called == last.op = "init"

\* an argument is a list whose length is not the one required
WrongLength(var, expect_num) ==
    var.type = "list" /\ Len(var.items) # expect_num

SomeWrongLength ==
    \/ WrongLength(last.blinds, last.num_players)
    \/ WrongLength(last.antes, last.num_players)
    \/ WrongLength(last.raise_sizes, last.num_streets)
    \/ WrongLength(last.num_raises, last.num_streets)
    \/ WrongLength(last.num_community_cards, last.num_streets)

\* entry i, counted from 0, of an argument as a list of the length
\* required: of the list itself, or of its value repeated
EntryAt(var, i) == IF var.type = "list" THEN var.items[i + 1] ELSE var

\* a raise size that is an int, "pot" or "inf"
KnownRaiseSize(raise_size) ==
    \/ raise_size.type = "int"
    \/ raise_size.type = "str" /\ raise_size.text \in {"pot", "inf"}

SomeUnknownRaiseSize ==
    \E i \in 0..(last.num_streets - 1) :
        ~KnownRaiseSize(EntryAt(last.raise_sizes, i))

\* the raise size and the number of raises the dealer keeps for an argument
KeptRaiseSize(raise_size) ==
    IF raise_size.type = "int" THEN Fixed(raise_size.n)
    ELSE IF raise_size.text = "pot" THEN PotLimit ELSE NoLimit

KeptNumRaises(raise_num) ==
    IF raise_num.type = "int" THEN Cap(raise_num.n) ELSE NoCap

\* the five fields are lists of the length required: the list passed, or
\* the scalar passed at every position
Broadcast ==
    /\ DOMAIN blinds = 0..(last.num_players - 1)
    /\ DOMAIN antes = 0..(last.num_players - 1)
    /\ DOMAIN raise_sizes = 0..(last.num_streets - 1)
    /\ DOMAIN num_raises = 0..(last.num_streets - 1)
    /\ DOMAIN num_community_cards = 0..(last.num_streets - 1)
    /\ \A i \in 0..(last.num_players - 1) :
        /\ blinds[i] = EntryAt(last.blinds, i).n
        /\ antes[i] = EntryAt(last.antes, i).n
    /\ \A i \in 0..(last.num_streets - 1) :
        /\ raise_sizes[i] = KeptRaiseSize(EntryAt(last.raise_sizes, i))
        /\ num_raises[i] = KeptNumRaises(EntryAt(last.num_raises, i))
        /\ num_community_cards[i] = EntryAt(last.num_community_cards, i).n

C24_FloatInfIsNoLimit ==
    Called /\ last.raise_sizes = FloatArg("inf") /\ ~SomeWrongLength =>
        /\ error = "none"
        /\ \A i \in 0..(last.num_streets - 1) : raise_sizes[i] = NoLimit

\* the seat s is active at the showdown and another active seat holds a
\* strictly better hand (a lower hand rank) and has committed at least as
\* many chips
Outdone(s) ==
    /\ active[s]
    /\ \E q \in Seats \ {s} :
        /\ active[q]
        /\ _eval_hands(self)[q] < _eval_hands(self)[s]
        /\ pot_commits[q] >= pot_commits[s]

\* C25: at showdown, a seat whose hand is strictly worse than that of
\* another active seat which committed at least as many chips receives no
\* chips from the pot: its payout is minus its pot commit, whatever the
\* number of seats, the pot commits and the ties among the other seats.
C25_WorseHandGetsNothing ==
    (AtShowdown /\ error = "none") =>
        \A s \in Seats : Outdone(s) => payouts[s] = -1 * pot_commits[s]

\* the chips on the table: the stacks and the pot
Chips == SumSeats(stacks) + pot

\* no hand is in progress and the last call returned
BetweenHands == action = -1 /\ error = "none"

\* C26: in a run where every reset(reset_stacks=False) is issued only after
\* the previous hand has completed, the sum of the stacks plus the pot is
\* the same in every state: no call of step changes it, a step that ends
\* the hand leaves the pot empty, so that the stacks after a hand sum to
\* what they summed to before its reset, and no reset between hands that
\* keeps the stacks changes it.
C26_ChipsConserved ==
    [][/\ last'.op = "step" => Chips' = Chips
       /\ (last'.op = "step" /\ error' = "none" /\ \A s \in Seats : done'[s])
            => pot' = 0
       /\ (BetweenHands /\ \E reset_button \in BOOLEAN :
                                Reset(reset_button, FALSE))
            => Chips' = Chips]_vars

\* a seat is to act on a street on which a full raise has been made
FacingRaise ==
    /\ action # -1 /\ error = "none" /\ street < num_streets
    /\ street_raises >= 1 /\ largest_raise > 0

\* the action has returned to a seat that has acted on this street, and
\* what it has to call is less than the largest raise: the raises made
\* since it acted were all-in raises of less than a full raise
ShortRaised ==
    /\ FacingRaise
    /\ street_option[action]
    /\ call_for(self) < largest_raise

\* the seat to act has to call at least the largest raise, the raises of
\* the street are not used up and its stack is more than the call
FullyRaised ==
    /\ FacingRaise
    /\ call_for(self) >= largest_raise
    /\ num_raises[street].inf \/ street_raises < num_raises[street].n
    /\ stacks[action] > call_for(self)

\* C27: on a street where a full raise has been made, a seat that has
\* already acted and to which the action returns with a call amount below
\* largest_raise is offered min_raise = max_raise = 0, and whatever it
\* submits the step collects its call or nothing (a fold); a seat whose call
\* amount is at least largest_raise is offered a max_raise above its call.
C27_NoReraiseAfterShortAllIn ==
    /\ [](ShortRaised =>
            /\ _bet_sizes(self).min_raise = 0
            /\ _bet_sizes(self).max_raise = 0)
    /\ [](FullyRaised =>
            _bet_sizes(self).max_raise > _bet_sizes(self).call)
    /\ [][(ShortRaised /\ \E bet2 \in Bets2 : Step(bet2)) =>
            /\ last'.min_raise = 0 /\ last'.max_raise = 0
            /\ last'.collected \in {0, last'.call}
            /\ last'.collected = 0 => (~active'[last'.seat] \/ last'.call = 0)
            /\ street_raises' \in {street_raises, 0}]_vars

\* a seat has raised, the other seat has gone all-in for less than a full
\* raise, and the first seat, with chips to spare, was taken the call
C27_Witness ==
    /\ BetReturned
    /\ Len(history) >= 3
    /\ history[Len(history) - 2][1] = last.seat
    /\ history[Len(history) - 1][1] # last.seat
    /\ last.min_raise = 0 /\ last.max_raise = 0
    /\ last.call > 0 /\ last.call < big_blind
    /\ last.stacks[last.seat] > last.call
    /\ last.collected = last.call

\* a step with a seat to act is taken
Betting == action # -1 /\ street < num_streets /\ last'.op = "step"

Before(commits, seat, bet) == [commits EXCEPT ![seat] = @ - bet]

\* the full-size raises (bet = call + raise_sizes[street]) among the first k
\* entries of history that were placed on the street whose commits are
\* given: the entries are undone from the last one back to the first bet
\* that is more than the seat has committed on the street
RECURSIVE FullSizeRaises(_, _)
FullSizeRaises(commits, k) ==
    IF k = 0 \/ history[k][2] > commits[history[k][1]] THEN 0
    ELSE (IF /\ history[k][2] > 0
             /\ history[k][2]
                    = MaxSeats(Before(commits, history[k][1], history[k][2]))
                        - Before(commits, history[k][1], history[k][2])
                                [history[k][1]]
                        + raise_sizes[street].size
          THEN 1 ELSE 0)
         + FullSizeRaises(Before(commits, history[k][1], history[k][2]),
                          k - 1)

\* a fixed-limit street with a cap on the raises is being played
OnFixedLimitStreet ==
    /\ action # -1 /\ street < num_streets /\ error = "none"
    /\ raise_sizes[street].kind = "int"
    /\ ~num_raises[street].inf

\* C29: on a fixed-limit street at most num_raises[street] full-size raises
\* (bet = call + raise_sizes[street]) are accepted, also when the raise
\* sizes decrease from one street to the next; once that many are accepted
\* every step on the street collects nothing (check or fold) or the call.
C29_FixedLimitRaisesCapped ==
    /\ [](OnFixedLimitStreet =>
            FullSizeRaises(street_commits, Len(history))
                <= num_raises[street].n)
    /\ [][(/\ OnFixedLimitStreet
           /\ FullSizeRaises(street_commits, Len(history))
                >= num_raises[street].n
           /\ last'.op = "step")
            => last'.collected \in {0, last'.call}]_vars

\* the table when the step has collected the bet and moved the action
\* (engine.py 379-384), before it looks whether the street is over
Acted ==
    _move_action([self EXCEPT
        !.active = active',
        !.stacks[action] = @ - last'.collected,
        !.street_commits[action] = @ + last'.collected,
        !.street_option[action] = TRUE])

\* the active seats that still have chips
StillWithChips(st) == {s \in Seats : st.active[s] /\ st.stacks[s] > 0}

\* the step closes the betting of the street with at most one active seat
\* that still has chips
ClosesAllIn ==
    /\ Betting
    /\ _all_agreed(Acted)
    /\ Cardinality(StillWithChips(Acted)) <= 1

\* the community cards of the streets after the current one
RECURSIVE CardsToCome(_)
CardsToCome(s) ==
    IF s >= num_streets THEN 0
    ELSE num_community_cards[s] + CardsToCome(s + 1)

\* C30: if at most one active seat still has chips when the betting of a
\* street closes, the same step deals the community cards of all remaining
\* streets, takes no further bet, sets street = num_streets and ends the
\* hand with every done flag true.
C30_AllInRunsOut ==
    [][ClosesAllIn =>
        /\ error' = "none"
        /\ street' = num_streets
        /\ community_cards'
            = community_cards \o Draw(deck, CardsToCome(street + 1)).drawn
        /\ Len(history') = Len(history) + 1
        /\ \A s \in Seats : done'[s]
        /\ action' = -1]_vars

------------------------------------------------------------------------------
(* Claims C31 - C40 *)

\* a step has ended the hand with two or more seats still active
EndedContested ==
    /\ BetReturned
    /\ \A s \in Seats : done[s]
    /\ CountTrue(active) >= 2

\* C31: whenever a step ends a hand (all done flags true) with two or more
\* active seats, every street has been played (street = num_streets), the
\* hand is settled, and the payouts are those of the showdown over the pot
\* as it was when the step computed them.
C31_ContestedHandEndsAtShowdown ==
    EndedContested =>
        /\ street = num_streets
        /\ action = -1
        /\ payouts
            = net(_eval_round([self EXCEPT !.pot = last.paid]),
                  pot_commits).payouts

\* the first active seat clockwise from the button, its left neighbour first
FirstActiveAfter(b, act) ==
    (b + (CHOOSE k \in 1..num_players :
            /\ act[(b + k) % num_players]
            /\ \A j \in 1..(k - 1) : ~act[(b + j) % num_players]))
        % num_players

\* a step closes a street and opens the next one for betting
OpensStreet ==
    /\ Betting
    /\ error' = "none"
    /\ street' > street /\ street' < num_streets
    /\ action' # -1

\* C32: on every street after the first that is opened for betting, the
\* first seat to act is the first active seat clockwise from the button (in
\* heads-up play the seat that is not the button), whoever acted last on
\* the street before.
C32_StreetOpensLeftOfButton ==
    [][OpensStreet =>
        /\ action' = FirstActiveAfter(button', active')
        /\ (num_players = 2 /\ CountTrue(active') = 2) => action' # button'
        /\ button' = button]_vars

\* three-handed, the seat left of the button has folded on the first
\* street and the second street is opened by the seat after it, which was
\* also the last to act on the first street
C32_Witness ==
    /\ BetReturned
    /\ num_players = 3
    /\ street = 1 /\ street < num_streets
    /\ ~active[(button + 1) % num_players]
    /\ action = (button + 2) % num_players
    /\ last.seat = action
    /\ \A s \in Seats : street_commits[s] = 0

\* the chips in the stacks, a stack below zero counted by its size
AbsStacks(st) == SumSeats(Table([s \in Seats |-> Abs(st[s])]))

\* the seats that have not had their option on the street
NoOption(opt) == Cardinality({s \in Seats : ~opt[s]})

\* the seats from seat a clockwise up to the first one whose street commit
\* is the largest
Dist(a, commits) ==
    CHOOSE k \in 0..(num_players - 1) :
        /\ commits[(a + k) % num_players] = MaxSeats(commits)
        /\ \A j \in 0..(k - 1) :
                commits[(a + j) % num_players] # MaxSeats(commits)

\* the lexicographic order of tuples of five numbers
Less5(a, b) ==
    \E i \in 1..5 : a[i] < b[i] /\ \A j \in 1..(i - 1) : a[j] = b[j]

\* what is left of a hand: the streets to play, the chips in the stacks,
\* the active seats, the seats without their option, and the way of the
\* action to the seat that bet most
Variant ==
    <<num_streets - street, AbsStacks(stacks), CountTrue(active),
      NoOption(street_option), Dist(action, street_commits)>>

\* C33: every hand terminates.  While a seat is to act, step can place a
\* bet (the street counter is below num_streets), no part of the variant
\* is negative, and every step that does not end the hand makes the
\* variant smaller: no sequence of steps goes on for ever.
C33_EveryHandTerminates ==
    /\ [](action # -1 =>
            /\ street < num_streets
            /\ \A i \in 1..5 : Variant[i] >= 0)
    /\ [][(Betting /\ action' # -1) => Less5(Variant', Variant)]_vars

\* a step has returned every done flag true and left no seat to act
HandEnded ==
    /\ action = -1
    /\ last.op = "step"
    /\ error = "none"
    /\ \A s \in Seats : done[s]

\* C34: step called after a hand has ended raises no error, returns every
\* done flag true and leaves the stacks, the pot, the commits, the active
\* flags, the street and the history unchanged
C34_StepAfterEndChangesNothing ==
    [][(HandEnded /\ last'.op = "step") =>
        /\ error' = "none"
        /\ \A s \in Seats : done'[s]
        /\ UNCHANGED <<config, table, trick>>]_vars

\* Dealer._render_config() (engine.py 425-456): the snapshot that render
\* shows; done and payouts are computed anew from the dealer's fields
_render_config(st) ==
    [action |-> st.action,
     active |-> st.active,
     all_in |-> Table([s \in Seats |-> st.active[s] /\ st.stacks[s] = 0]),
     button |-> st.button,
     done |-> \A s \in Seats : _done(st)[s],
     pot |-> st.pot,
     raised |-> _payouts(st).raised,
     payouts |-> _payouts(st).payouts,
     street_commits |-> st.street_commits,
     stacks |-> st.stacks]

\* C35: the payouts that a step called after the end of a hand returns,
\* and the payouts of a render snapshot taken then, are the payouts that
\* the step that ended the hand returned
C35_PayoutsAfterEndAreTheSame ==
    /\ [](HandEnded =>
            /\ ~_render_config(self).raised
            /\ _render_config(self).payouts = payouts)
    /\ [][(HandEnded /\ last'.op = "step") =>
            /\ error' = "none"
            /\ payouts' = payouts]_vars

\* C36: in every state in which a hand is in progress (action is not -1),
\* after a call of reset or of step, action is the index of an active seat
C36_ActionOnActiveSeat ==
    action # -1 => (action \in Seats /\ active[action])

\* an active seat that is all-in is to act
AllInToAct ==
    /\ action # -1
    /\ street < num_streets
    /\ active[action]
    /\ stacks[action] = 0

\* C37: an active seat with stack 0 does not become inactive on its turn.
\* Whatever bet is submitted, a negative one included, the seat stays
\* active (the showdown is among the active seats), no chips are collected
\* from it and its pot commit is unchanged; while the hand goes on its
\* stack stays 0, and while the street goes on its street commit is
\* unchanged.
C37_AllInSeatStaysActive ==
    [][(AllInToAct /\ last'.op = "step") =>
        /\ active'[action]
        /\ last'.collected = 0
        /\ pot_commits'[action] = pot_commits[action]
        /\ (error' = "none" /\ action' # -1) => stacks'[action] = 0
        /\ (error' = "none" /\ action' # -1 /\ street' = street) =>
                street_commits'[action] = street_commits[action]]_vars

\* a negative bet was submitted for an all-in seat while another seat had
\* bet more than it: the seat is still active and the hand goes on
C37_Witness ==
    /\ BetReturned
    /\ last.fold
    /\ last.active[last.seat]
    /\ last.stacks[last.seat] = 0
    /\ street_commits[last.seat] < MaxSeats(street_commits)
    /\ active[last.seat]
    /\ action # -1

\* the entry that the step has appended to the history
Appended == history'[Len(history')]

\* C38: every entry (seat, bet, folded) that step appends to the history
\* is of the seat that acted, has folded true exactly when the action made
\* the seat inactive, and bet equal to the chips collected from the seat
C38_HistoryRecordsTheAction ==
    [][Betting =>
        /\ Len(history') = Len(history) + 1
        /\ Appended[1] = action
        /\ Appended[3] <=> (active[action] /\ ~active'[action])
        /\ Appended[2] = last'.collected]_vars

\* a street after the first, without a fixed raise size and with raises
\* left, is to be opened: no seat has bet on it
StreetToOpen ==
    /\ action # -1
    /\ error = "none"
    /\ street > 0
    /\ street < num_streets
    /\ raise_sizes[street].kind # "int"
    /\ num_raises[street].inf \/ num_raises[street].n > 0
    /\ street_raises = 0
    /\ \A s \in Seats : street_commits[s] = 0

\* C39: reset sets largest_raise to big_blind, and no step makes it
\* smaller: a full raise sets it to the size of the raise, and a new street
\* leaves it.  So on a no-limit or pot-limit street that is to be opened,
\* min_raise, and every bet placed, is at least the largest raise of the
\* hand or the stack of the seat.
C39_LargestRaiseKept ==
    /\ [][(last'.op = "reset" /\ error' = "none") =>
            largest_raise' = big_blind]_vars
    /\ [][last'.op = "step" => largest_raise' >= largest_raise]_vars
    /\ [][(Betting /\ full_raise(last'.bet, last'.call, largest_raise)) =>
            largest_raise' = last'.bet - last'.call]_vars
    /\ [](StreetToOpen =>
            _bet_sizes(self).min_raise >= Min2(largest_raise, stacks[action]))
    /\ [][(StreetToOpen /\ last'.op = "step" /\ last'.collected > 0) =>
            last'.collected >= Min2(largest_raise, stacks[action])]_vars

\* the second street is to be opened after a raise larger than the big
\* blind was called on the first, by a seat that has the chips for it
C39_Witness ==
    /\ StreetToOpen
    /\ last.op = "step"
    /\ largest_raise > big_blind
    /\ stacks[action] >= largest_raise
    /\ _bet_sizes(self).min_raise = largest_raise

\* the hole cards of the seats from seat s on, as one list
RECURSIVE HoleCardsFrom(_)
HoleCardsFrom(s) ==
    IF s >= num_players THEN <<>> ELSE hole_cards[s] \o HoleCardsFrom(s + 1)

\* the hole cards, the community cards and the cards left in the deck
CardsOfTheHand == HoleCardsFrom(0) \o community_cards \o deck

\* the cards of a list
Range(q) == {q[i] : i \in 1..Len(q)}

\* C40: in every state of a hand, the hole cards of the seats, the
\* community cards and the cards left in the deck are pairwise distinct
\* and are together the full deck
C40_CardsAreTheFullDeck ==
    hole_cards # <<>> =>
        /\ Len(CardsOfTheHand) = Len(full_deck)
        /\ Range(CardsOfTheHand) = Range(full_deck)
        /\ \A i, j \in 1..Len(CardsOfTheHand) :
                CardsOfTheHand[i] = CardsOfTheHand[j] => i = j

\* the second street was dealt in the run-out of an all-in: the hand is at
\* showdown with a community card on the board after fewer bets than two
\* streets of betting take
C40_Witness ==
    /\ BetReturned
    /\ num_streets = 2
    /\ street = num_streets
    /\ CountTrue(active) >= 2
    /\ Len(history) < 4
    /\ Len(community_cards) = 1
    /\ hole_cards # <<>>

====
